---- MODULE Spec2Model ----
(***************************************************************************)
(* Verification model of the FHEVM SDK (packages/fhevm-sdk):               *)
(*   - FhevmClient, the client lifecycle state machine (core/client)       *)
(*   - the React useFhevm binding that mirrors the client                  *)
(*   - the encryption / decryption gateways that borrow the instance       *)
(*   - the React and Vue useDecrypt gateways with their staleness guard    *)
(* Each component has its own specification over a shared variable set;    *)
(* a specification leaves the variables of the other components alone.     *)
(***************************************************************************)
EXTENDS Integers, Sequences, FiniteSets, TLC

\* ------------------------------------------------------------------------
\* Bounds
\* ------------------------------------------------------------------------
\* number of instance-creation calls (connection attempts) a run may start
MaxAttempts == 3
\* number of caller operations (connect / disconnect / reconnect) in a run
MaxOps == 5

\* number of encrypt() / core decrypt() calls a run of the gateways may issue
MaxGatewayCalls == 2
\* number of decrypt() calls a run of a useDecrypt gateway may issue
MaxDecryptCalls == 3

\* number of caller operations on the EventEmitter in a run
MaxEmitterOps == 4
\* depth of nested emit() calls (an emit() made by a listener)
MaxDepth == 2
\* number of listener calls the emissions of a run may make
MaxListenerCalls == 6

\* clients the Vue useFhevm composable may create, attempts each may start, and the
\* network changes and reconnect() calls of a run
MaxClients == 2
MaxClientAttempts == 2
MaxComposableOps == 3

Attempts == 1..MaxAttempts

\* `undefined` / `null` for instance, chainId and the abort controller
Undefined == 0

\* ------------------------------------------------------------------------
\* FhevmClient state
\* ------------------------------------------------------------------------
VARIABLES
  status,          \* FhevmClient._status
  instance,        \* FhevmClient._instance: Undefined, or the id of the attempt that produced it
  chainId,         \* FhevmClient._chainId
  abortController, \* FhevmClient._abortController: Undefined (null), or the attempt owning it
  attempts,        \* per connection attempt: the createFhevmInstance call and the connect() promise
  emitted,         \* the events emitted by the most recent step, in order
  lastOp,          \* the most recent step: the operation and the attempt it belongs to
  opCount,         \* caller operations issued so far
  hookStatus,      \* React useFhevm: status state
  hookInstance,    \* React useFhevm: instance state
  hookError,       \* React useFhevm: error state
  gwProps,         \* useEncrypt / decrypt inputs besides the instance: signer, contractAddress
  enc,             \* the encrypt() call of the React useEncrypt gateway
  dec,             \* the core decrypt() call
  lastUse,         \* the most recent invocation of a capability of an Instance
  gwCalls,         \* gateway calls issued so far
  rProps,          \* React useDecrypt: the params of the current render
  rIsDecrypting,   \* React useDecrypt: isDecrypting state
  rResults,        \* React useDecrypt: results state
  rMessage,        \* React useDecrypt: message state
  rError,          \* React useDecrypt: error state
  isDecryptingRef, \* React useDecrypt: isDecryptingRef.current
  lastReqKeyRef,   \* React useDecrypt: lastReqKeyRef.current
  rInflight,       \* React useDecrypt: the doDecrypt calls suspended at `await decrypt(...)`
  rCallCount,      \* React useDecrypt: decrypt() calls issued so far
  rLastSettle,     \* React useDecrypt: the call whose core decrypt settled last, and how
  vProps,          \* Vue useDecrypt: signer and storage
  vInstance,       \* Vue useDecrypt: instance.value
  vRequests,       \* Vue useDecrypt: requests.value
  vIsDecrypting,   \* Vue useDecrypt: isDecrypting.value
  vResults,        \* Vue useDecrypt: results.value
  vMessage,        \* Vue useDecrypt: message.value
  vError,          \* Vue useDecrypt: error.value
  isDecryptingInternal, \* Vue useDecrypt: the plain variable isDecryptingInternal
  lastReqKey,      \* Vue useDecrypt: the plain variable lastReqKey
  canDecryptCache, \* Vue useDecrypt: the computed canDecrypt (cached value, dirty flag)
  vInflight,       \* Vue useDecrypt: the doDecrypt calls suspended at `await decrypt(...)`
  vCallCount,      \* Vue useDecrypt: decrypt() calls issued so far
  vLastSettle,     \* Vue useDecrypt: the call whose core decrypt settled last, and how
  listeners,       \* EventEmitter.listeners: the entry of the Map for one event name
  stack,           \* EventEmitter: the emit() calls in progress, innermost last
  lastEmit,        \* EventEmitter: the emit() call that returned last
  onceCalls,       \* EventEmitter: how often each onceWrapper called its listener
  onceMade,        \* EventEmitter: the onceWrappers created so far
  emOps,           \* EventEmitter: caller operations issued so far
  emCalls,         \* EventEmitter: listener calls made so far
  config,          \* FhevmClient._config: network and fallbackRpc
  fnIn,            \* core functions: the function called and its arguments
  fnPc,            \* core functions: where the call stands
  fnOut,           \* core functions: what the call returned, resolved or rejected with
  fnLog,           \* core decrypt: the calls it made on its collaborators, in order
  sigStore,        \* core decrypt: the decryption signature held by the storage
  vfNetwork,       \* Vue useFhevm: the value of the `network` computed
  vfMounted,       \* Vue useFhevm: the component is in setup, mounted or unmounted
  vfClients,       \* Vue useFhevm: the FhevmClients the watch callback created
  vfCreated,       \* Vue useFhevm: how many clients were created
  vfClient,        \* Vue useFhevm: client.value
  vfStatus,        \* Vue useFhevm: status.value
  vfInstance,      \* Vue useFhevm: instance.value
  vfError,         \* Vue useFhevm: error.value
  vfOps            \* Vue useFhevm: network changes and reconnect() calls so far

configVars == <<config>>
composableVars == <<vfNetwork, vfMounted, vfClients, vfCreated, vfClient, vfStatus, vfInstance,
                    vfError, vfOps>>
coreVars == <<fnIn, fnPc, fnOut, fnLog, sigStore>>
emitterVars == <<listeners, stack, lastEmit, onceCalls, onceMade, emOps, emCalls>>
clientVars == <<status, instance, chainId, abortController, attempts, emitted, lastOp, opCount>>
hookVars == <<hookStatus, hookInstance, hookError>>
gwVars == <<gwProps, enc, dec, lastUse, gwCalls>>
reactVars == <<rProps, rIsDecrypting, rResults, rMessage, rError, isDecryptingRef,
               lastReqKeyRef, rInflight, rCallCount, rLastSettle>>
vueVars == <<vProps, vInstance, vRequests, vIsDecrypting, vResults, vMessage, vError,
             isDecryptingInternal, lastReqKey, canDecryptCache, vInflight, vCallCount,
             vLastSettle>>

\* the sub-phases createFhevmInstance reports through onStatusChange, in order
RawStatuses == <<"sdk-loading", "sdk-loaded", "sdk-initializing", "sdk-initialized", "creating">>

\* statusMap of the onStatusChange callback
StatusMap(raw) ==
  CASE raw = "sdk-loading" -> "sdk-loading"
    [] raw = "sdk-loaded" -> "sdk-loading"
    [] raw = "sdk-initializing" -> "sdk-initializing"
    [] raw = "sdk-initialized" -> "sdk-initializing"
    [] raw = "creating" -> "creating-instance"
    [] OTHER -> ""

\* ------------------------------------------------------------------------
\* Error values
\* ------------------------------------------------------------------------
NoError == [kind |-> "none", msg |-> "", num |-> 0]

\* what createFhevmInstance may reject with: an Error, or a value that is not an Error
RejectReasons ==
  { [kind |-> "Error", msg |-> "relayer down", num |-> 0],
    [kind |-> "number", msg |-> "", num |-> 42] }

\* String(error) for a non-Error value
StringOf(r) == IF r.kind = "number" THEN ToString(r.num) ELSE r.msg

\* error instanceof Error ? error : new Error(String(error))
NormalizeError_NoWrap(r) == r
NormalizeError(r) ==
  IF r.kind = "Error" THEN r ELSE [kind |-> "Error", msg |-> StringOf(r), num |-> 0]

\* ------------------------------------------------------------------------
\* Events
\* ------------------------------------------------------------------------
Ev(type, st, inst, err) == [type |-> type, status |-> st, inst |-> inst, err |-> err]
StatusChangeEv(st) == Ev("statusChange", st, Undefined, NoError)
ReadyEv(inst) == Ev("ready", "", inst, NoError)
ErrorEv(err) == Ev("error", "", Undefined, err)
DisconnectEv == Ev("disconnect", "", Undefined, NoError)

\* setStatus(s): the events it emits when the current status is cur
SetStatusEmits_Always(cur, s) == <<StatusChangeEv(s)>>
SetStatusEmits(cur, s) == IF cur = s THEN <<>> ELSE <<StatusChangeEv(s)>>

\* React useFhevm listeners: the hook state after the events evs are delivered in order
RECURSIVE HookDeliverAll(_, _)
HookDeliverAll(h, evs) ==
  IF evs = <<>> THEN h
  ELSE LET ev == Head(evs)
           next ==
             CASE ev.type = "statusChange" -> [h EXCEPT !.status = ev.status]
               [] ev.type = "ready" -> [h EXCEPT !.instance = ev.inst, !.error = NoError]
               [] ev.type = "error" -> [h EXCEPT !.error = ev.err, !.instance = Undefined]
               [] ev.type = "disconnect" -> [h EXCEPT !.instance = Undefined, !.error = NoError]
               [] OTHER -> h
       IN HookDeliverAll(next, Tail(evs))

\* EventEmitter.emit for the listeners useFhevm registered: deliver evs in order
Emit(evs) ==
  /\ emitted' = evs
  /\ LET h == HookDeliverAll([status |-> hookStatus, instance |-> hookInstance, error |-> hookError], evs) IN
       /\ hookStatus' = h.status
       /\ hookInstance' = h.instance
       /\ hookError' = h.error

\* ------------------------------------------------------------------------
\* Attempts
\* ------------------------------------------------------------------------
\* config.network / config.fallbackRpc left undefined
NoProvider == "undefined"
DefaultConfig == [network |-> "wallet", fallbackRpc |-> NoProvider, chainId |-> Undefined]

\* _chainId initialised from config.chainId
InitialChainId_FromConfig(cfg) == cfg.chainId
\* _chainId after construction: the field has no initialiser and the constructor does not
\* assign it
InitialChainId(cfg) == Undefined

\* the `provider` connect() hands to createFhevmInstance
ProviderArg(cfg) == cfg.network

Started == {a \in Attempts : attempts[a].st # "unused"}
InFlight == {a \in Attempts : attempts[a].st = "inflight"}
NextAttemptId == Cardinality(Started) + 1

OpR(name, a, r) == [op |-> name, attempt |-> a, reason |-> r]
Op(name, a) == OpR(name, a, NoError)

\* signal.aborted, as connect() of attempt a reads it after its await
SignalAborted_NeverSet(atts, a) == FALSE
SignalAborted(atts, a) == atts[a].aborted

Count(evs, type) == Cardinality({i \in 1..Len(evs) : evs[i].type = type})

\* bookkeeping of a settlement of attempt a that emitted evs
Settle(atts, a, how, promise, thrown, evs) ==
  [atts EXCEPT ![a].st = "settled", ![a].raw = 0, ![a].settledAs = how,
               ![a].abortedAtSettle = atts[a].aborted,
               ![a].promise = promise, ![a].thrown = thrown,
               ![a].readyCount = @ + Count(evs, "ready"),
               ![a].errorCount = @ + Count(evs, "error")]

\* the stored controller is never aborted
AbortStored_Never(atts) == atts
\* this._abortController.abort() on the stored controller, if any
AbortStored(atts) ==
  IF abortController # Undefined
    THEN [atts EXCEPT ![abortController].aborted = TRUE]
    ELSE atts

\* ------------------------------------------------------------------------
\* EventEmitter (the base class of FhevmClient), for one event name
\* ------------------------------------------------------------------------
\* the functions callers register, and the onceWrapper closures once() creates
Listeners == {"f1", "f2"}
Wrappers == {"w1"}

\* an entry of a Set that was deleted: forEach skips it
Empty == ""

\* the elements of a Set, given its entries in insertion order
Members(slots) == {slots[i] : i \in DOMAIN slots} \ {Empty}

\* the entries of a Set without the deleted ones: what a forEach started now would visit
Compact(slots) == SelectSeq(slots, LAMBDA x : x # Empty)

\* this.listeners has no entry for the event
NoEntry == [present |-> FALSE, slots |-> <<>>]

\* emit() found the Set ls in the Map and starts eventListeners.forEach on it. A frame
\* is `live` while the Set it iterates is still the one stored in the Map; once the Map
\* entry is deleted nothing can reach that Set any more and the frame keeps its entries.
NewFrame(ls) ==
  [live |-> TRUE, slots |-> <<>>, idx |-> 1, snapshot |-> Members(ls.slots), invoked |-> {},
   removed |-> {}, threw |-> FALSE, afterThrow |-> FALSE]

\* the entries of the Set frame fr iterates
FrameSlots(fr, ls) == IF fr.live THEN ls.slots ELSE fr.slots

\* the index of the entry forEach visits next in frame fr, 0 when none is left
NextIndex(fr, ls) ==
  LET slots == FrameSlots(fr, ls)
      left == {i \in fr.idx..Len(slots) : slots[i] # Empty}
  IN IF left = {} THEN 0 ELSE CHOOSE i \in left : \A j \in left : i <= j

\* this.listeners.delete(event): the frames iterating the Set keep it, with entries slots
Orphan(st, slots) ==
  [i \in DOMAIN st |->
     IF st[i].live THEN [st[i] EXCEPT !.live = FALSE, !.slots = slots] ELSE st[i]]

\* on(event, f)
DoOn(E, f) ==
  IF ~E.ls.present THEN [E EXCEPT !.ls = [present |-> TRUE, slots |-> <<f>>]]
  ELSE IF f \in Members(E.ls.slots) THEN E
  ELSE [E EXCEPT !.ls.slots = Append(@, f)]

\* off(event, f)
DoOff(E, f) ==
  IF ~E.ls.present \/ f \notin Members(E.ls.slots) THEN E
  ELSE LET slots == [i \in DOMAIN E.ls.slots |->
                       IF E.ls.slots[i] = f THEN Empty ELSE E.ls.slots[i]]
           st == [i \in DOMAIN E.st |->
                    IF E.st[i].live THEN [E.st[i] EXCEPT !.removed = @ \cup {f}] ELSE E.st[i]]
       IN IF Members(slots) = {}
            THEN [ls |-> NoEntry, st |-> Orphan(st, slots)]
            ELSE [ls |-> [present |-> TRUE, slots |-> slots], st |-> st]

\* removeAllListeners(event)
DoRemoveAll(E) ==
  IF ~E.ls.present THEN E ELSE [ls |-> NoEntry, st |-> Orphan(E.st, E.ls.slots)]

\* the record of an emit() call that returned, or threw
Completed(fr, result) ==
  [snapshot |-> fr.snapshot, invoked |-> fr.invoked, removed |-> fr.removed,
   threw |-> fr.threw, afterThrow |-> fr.afterThrow, result |-> result]
NoEmit == [snapshot |-> {}, invoked |-> {}, removed |-> {}, threw |-> FALSE,
           afterThrow |-> FALSE, result |-> "none"]
FalseEmit == [NoEmit EXCEPT !.result = "false"]

\* the try/catch around each listener call
ListenerErrorCaught_Rethrows == FALSE
ListenerErrorCaught == TRUE

InitEmitter ==
  /\ listeners = NoEntry
  /\ stack = <<>>
  /\ lastEmit = NoEmit
  /\ onceCalls = [w \in Wrappers |-> 0]
  /\ onceMade = {}
  /\ emOps = 0
  /\ emCalls = 0

\* a caller outside any emission may call the emitter
EmitterIdle == stack = <<>> /\ emOps < MaxEmitterOps

EmitterOn(f) ==
  /\ EmitterIdle
  /\ emOps' = emOps + 1
  /\ listeners' = DoOn([ls |-> listeners, st |-> stack], f).ls
  /\ UNCHANGED <<stack, lastEmit, onceCalls, onceMade, emCalls>>
  /\ UNCHANGED <<configVars, composableVars, coreVars, clientVars, hookVars, gwVars, reactVars, vueVars>>

\* once(event, listener): a new onceWrapper w is registered
EmitterOnce(w) ==
  /\ EmitterIdle
  /\ w \notin onceMade
  /\ emOps' = emOps + 1
  /\ onceMade' = onceMade \cup {w}
  /\ listeners' = DoOn([ls |-> listeners, st |-> stack], w).ls
  /\ UNCHANGED <<stack, lastEmit, onceCalls, emCalls>>
  /\ UNCHANGED <<configVars, composableVars, coreVars, clientVars, hookVars, gwVars, reactVars, vueVars>>

EmitterOff(f) ==
  /\ EmitterIdle
  /\ emOps' = emOps + 1
  /\ LET ls == DoOff([ls |-> listeners, st |-> stack], f).ls
     IN listeners' = [ls EXCEPT !.slots = Compact(@)]
  /\ UNCHANGED <<stack, lastEmit, onceCalls, onceMade, emCalls>>
  /\ UNCHANGED <<configVars, composableVars, coreVars, clientVars, hookVars, gwVars, reactVars, vueVars>>

EmitterRemoveAllListeners ==
  /\ EmitterIdle
  /\ emOps' = emOps + 1
  /\ listeners' = DoRemoveAll([ls |-> listeners, st |-> stack]).ls
  /\ UNCHANGED <<stack, lastEmit, onceCalls, onceMade, emCalls>>
  /\ UNCHANGED <<configVars, composableVars, coreVars, clientVars, hookVars, gwVars, reactVars, vueVars>>

\* emit(event) up to the first listener call
EmitterEmit ==
  /\ EmitterIdle
  /\ emOps' = emOps + 1
  /\ IF listeners.present
       THEN stack' = <<NewFrame(listeners)>> /\ UNCHANGED lastEmit
       ELSE lastEmit' = FalseEmit /\ UNCHANGED stack
  /\ UNCHANGED <<listeners, onceCalls, onceMade, emCalls>>
  /\ UNCHANGED <<configVars, composableVars, coreVars, clientVars, hookVars, gwVars, reactVars, vueVars>>

\* forEach of the innermost emit() calls the next listener g, whose body is b. An
\* onceWrapper first calls this.off(event, onceWrapper) and then its listener. A body that
\* emits starts a nested emit(), which the body awaits before it returns.
ListenerRuns(b) ==
  /\ stack # <<>>
  /\ emCalls < MaxListenerCalls
  /\ LET top == Len(stack)
         fr == stack[top]
         n == NextIndex(fr, listeners)
     IN /\ n # 0
        /\ b.op = "emit" => top < MaxDepth
        /\ LET g == FrameSlots(fr, listeners)[n]
               E0 == [ls |-> listeners,
                      st |-> [stack EXCEPT ![top].idx = n + 1,
                                           ![top].invoked = @ \cup {g},
                                           ![top].afterThrow =
                                              (@ \/ fr.threw)]]
               E1 == IF g \in Wrappers THEN DoOff(E0, g) ELSE E0
               E2 == CASE b.op = "on" -> DoOn(E1, b.f)
                       [] b.op = "off" -> DoOff(E1, b.f)
                       [] b.op = "removeAllListeners" -> DoRemoveAll(E1)
                       [] OTHER -> E1
           IN /\ onceCalls' = IF g \in Wrappers THEN [onceCalls EXCEPT ![g] = @ + 1]
                                                ELSE onceCalls
              /\ listeners' = E2.ls
              /\ CASE b.op = "throw" /\ ListenerErrorCaught ->
                        /\ stack' = [E2.st EXCEPT ![top].threw = TRUE]
                        /\ UNCHANGED lastEmit
                   [] b.op = "throw" /\ ~ListenerErrorCaught ->
                        /\ stack' = <<>>
                        /\ lastEmit' = Completed([E2.st[top] EXCEPT !.threw = TRUE], "threw")
                   [] b.op = "emit" /\ E2.ls.present ->
                        /\ stack' = Append(E2.st, NewFrame(E2.ls))
                        /\ UNCHANGED lastEmit
                   [] b.op = "emit" /\ ~E2.ls.present ->
                        /\ stack' = E2.st
                        /\ lastEmit' = FalseEmit
                   [] OTHER ->
                        /\ stack' = E2.st
                        /\ UNCHANGED lastEmit
  /\ emCalls' = emCalls + 1
  /\ UNCHANGED <<onceMade, emOps>>
  /\ UNCHANGED <<configVars, composableVars, coreVars, clientVars, hookVars, gwVars, reactVars, vueVars>>

\* forEach of the innermost emit() has no entry left: emit() returns true
ForEachDone ==
  /\ stack # <<>>
  /\ NextIndex(stack[Len(stack)], listeners) = 0
  /\ stack' = SubSeq(stack, 1, Len(stack) - 1)
  /\ lastEmit' = Completed(stack[Len(stack)], "true")
  /\ listeners' = (IF Len(stack) = 1 THEN [listeners EXCEPT !.slots = Compact(@)] ELSE listeners)
  /\ UNCHANGED <<onceCalls, onceMade, emOps, emCalls>>
  /\ UNCHANGED <<configVars, composableVars, coreVars, clientVars, hookVars, gwVars, reactVars, vueVars>>

\* no core function is called
NoOutput == [kind |-> "none"]
NoSignature == [present |-> FALSE]
InitCoreIdle ==
  /\ fnIn = [fn |-> "none"]
  /\ fnPc = "ready"
  /\ fnOut = NoOutput
  /\ fnLog = <<>>
  /\ sigStore = NoSignature

\* the state of a FhevmClient after construction, with the React binding attached
InitClientState ==
  /\ InitEmitter
  \* Vue useFhevm after setup(): no network yet, no client
  /\ vfNetwork = NoProvider
  /\ vfMounted = "setup"
  /\ vfClients = [c \in 1..MaxClients |->
                    [st |-> "idle", inst |-> Undefined, ctrl |-> Undefined, on |-> FALSE,
                     atts |-> [a \in 1..MaxClientAttempts |->
                                 [st |-> "unused", aborted |-> FALSE]]]]
  /\ vfCreated = 0
  /\ vfClient = Undefined
  /\ vfStatus = "idle"
  /\ vfInstance = Undefined
  /\ vfError = NoError
  /\ vfOps = 0
  /\ status = "idle"
  /\ instance = Undefined
  /\ abortController = Undefined
  /\ attempts = [a \in Attempts |->
       [st |-> "unused",          \* unused | inflight | settled
        aborted |-> FALSE,        \* signal.aborted of this attempt's AbortController
        raw |-> 0,                \* index in RawStatuses of the last sub-phase reported while in flight
        promise |-> "none",       \* the connect() promise: none | pending | resolved | rejected
        thrown |-> NoError,       \* what the connect() promise rejected with
        settledAs |-> "none",     \* how createFhevmInstance settled: none | resolved | rejected
        abortedAtSettle |-> FALSE,
        readyCount |-> 0,         \* `ready` events emitted by this attempt
        errorCount |-> 0,         \* `error` events emitted by this attempt
        provider |-> NoProvider]]  \* the `provider` handed to createFhevmInstance
  /\ emitted = <<>>
  /\ lastOp = Op("init", 0)
  /\ opCount = 0
  /\ hookStatus = "idle"
  /\ hookInstance = Undefined
  /\ hookError = NoError

\* new FhevmClient(cfg), no listener registered on its emitter, no core function called
InitClientWith(cfg) ==
  /\ config = cfg
  /\ chainId = InitialChainId(cfg)
  /\ InitClientState

InitClient ==
  /\ InitClientWith(DefaultConfig)
  /\ InitCoreIdle

\* no gateway call yet
IdleCall == [pc |-> "idle", inst |-> Undefined, outcome |-> "none"]
NoUse == [cap |-> "none", inst |-> Undefined, clientStatus |-> ""]

InitGatewayIdle ==
  /\ enc = IdleCall
  /\ dec = IdleCall
  /\ lastUse = NoUse
  /\ gwCalls = 0

\* ------------------------------------------------------------------------
\* Decryption requests, batch identity, texts
\* ------------------------------------------------------------------------
\* handles are ordered as localeCompare orders their hex strings
Req(h, c) == [handle |-> h, contractAddress |-> c]

\* the batches a caller passes as `requests`
Batches ==
  { <<>>,
    <<Req(1, "0xC1")>>,
    <<Req(2, "0xC2")>>,
    <<Req(1, "0xC1"), Req(2, "0xC2")>>,
    <<Req(2, "0xC2"), Req(1, "0xC1")>> }

\* `requests` of the React hook: readonly DecryptionRequest[] | undefined
Requests(b) == [defined |-> TRUE, items |-> b]
UndefinedRequests == [defined |-> FALSE, items |-> <<>>]

\* insert request r into the sorted sequence s, after the elements that do not compare
\* greater (Array.prototype.sort is stable)
RECURSIVE InsertByHandle(_, _)
InsertByHandle(s, r) ==
  IF s = <<>> THEN <<r>>
  ELSE IF Head(s).handle <= r.handle
         THEN <<Head(s)>> \o InsertByHandle(Tail(s), r)
         ELSE <<r>> \o s

\* [...requests].sort((a, b) => a.handle.localeCompare(b.handle))
RECURSIVE SortByHandle(_)
SortByHandle(b) ==
  IF b = <<>> THEN <<>>
  ELSE InsertByHandle(SortByHandle(SubSeq(b, 1, Len(b) - 1)), b[Len(b)])

\* requestsKey: "" (here <<>>) for an absent or empty batch, else JSON.stringify(sorted),
\* for which the sorted sequence itself stands
RequestsKey(rq) ==
  IF ~rq.defined \/ Len(rq.items) = 0 THEN <<>> ELSE SortByHandle(rq.items)

\* what instance.userDecrypt yields for a batch: handle -> clear value
DecryptedFor(b) == [h \in {b[i].handle : i \in 1..Len(b)} |-> h + 40]
EmptyResults == DecryptedFor(<<>>)

\* strings: a fixed text followed by an interpolated part
Text(t, detail) == [text |-> t, detail |-> detail]
NullText == [text |-> "null", detail |-> ""]
CancelledText == Text("Decryption cancelled (stale request)", "")

\* err instanceof Error ? err.message : String(err)
ErrMessage(r) == IF r.kind = "Error" THEN r.msg ELSE StringOf(r)

\* no core decrypt has settled yet / call id settled as how
NoSettle == [id |-> 0, how |-> "none"]
Settled(c, how) == [id |-> c.id, how |-> how]

InitReactWith(props) ==
  /\ rProps = props
  /\ rIsDecrypting = FALSE
  /\ rResults = EmptyResults
  /\ rMessage = Text("", "")
  /\ rError = NullText
  /\ isDecryptingRef = FALSE
  /\ lastReqKeyRef = <<>>
  /\ rInflight = {}
  /\ rCallCount = 0
  /\ rLastSettle = NoSettle

InitVueWith(props, req) ==
  /\ vProps = props
  /\ vInstance = Undefined
  /\ vRequests = req
  /\ vIsDecrypting = FALSE
  /\ vResults = EmptyResults
  /\ vMessage = NullText
  /\ vError = NullText
  /\ isDecryptingInternal = FALSE
  /\ lastReqKey = <<>>
  /\ canDecryptCache = [dirty |-> TRUE, value |-> FALSE]
  /\ vInflight = {}
  /\ vCallCount = 0
  /\ vLastSettle = NoSettle

InitReactIdle ==
  InitReactWith([instance |-> Undefined, signer |-> TRUE, storage |-> TRUE, chainId |-> Undefined,
                 requests |-> UndefinedRequests])

InitVueIdle == InitVueWith([signer |-> TRUE, storage |-> TRUE], <<>>)

Init ==
  /\ InitClient
  /\ gwProps = [signer |-> TRUE, contractAddress |-> TRUE]
  /\ InitGatewayIdle
  /\ InitReactIdle
  /\ InitVueIdle

\* ------------------------------------------------------------------------
\* FhevmClient.connect()
\* ------------------------------------------------------------------------
\* the guard at the top of connect(): already connecting or connected
ConnectIsNoOp_ReadyOnly(st) == st = "ready"
ConnectIsNoOp(st) == st = "connecting" \/ st = "ready"

\* connect(): either it takes its early return, or it runs up to its first await:
\* abort the stored controller, store a new one, setStatus("connecting"), call
\* createFhevmInstance
Connect ==
  \/ /\ opCount < MaxOps
     /\ ConnectIsNoOp(status)
     /\ opCount' = opCount + 1
     /\ lastOp' = Op("connect", 0)
     /\ Emit(<<>>)
     /\ UNCHANGED <<status, instance, chainId, abortController, attempts>>
     /\ UNCHANGED <<configVars, composableVars, coreVars, emitterVars, gwVars, reactVars, vueVars>>
  \/ /\ opCount < MaxOps
     /\ ~ConnectIsNoOp(status)
     /\ NextAttemptId <= MaxAttempts
     /\ LET a == NextAttemptId IN
          /\ attempts' = [AbortStored(attempts) EXCEPT ![a].st = "inflight", ![a].promise = "pending",
                                                     ![a].provider = ProviderArg(config)]
          /\ abortController' = a
          /\ status' = "connecting"
          /\ Emit(SetStatusEmits(status, "connecting"))
          /\ lastOp' = Op("connect", a)
     /\ opCount' = opCount + 1
     /\ UNCHANGED <<instance, chainId>>
     /\ UNCHANGED <<configVars, composableVars, coreVars, emitterVars, gwVars, reactVars, vueVars>>

\* createFhevmInstance may report sub-phase i for attempt a: it is still running and
\* reports its sub-phases in order
CapabilityReports(a, i) ==
  /\ attempts[a].st = "inflight"
  /\ i > attempts[a].raw

\* the onStatusChange callback of attempt a, called by createFhevmInstance with RawStatuses[i]
OnStatusChange(a, i) ==
  /\ CapabilityReports(a, i)
  /\ LET clientStatus == StatusMap(RawStatuses[i])
         evs == IF clientStatus # "" THEN SetStatusEmits(status, clientStatus) ELSE <<>>
     IN /\ status' = (IF clientStatus # "" THEN clientStatus ELSE status)
        /\ Emit(evs)
        /\ attempts' = [attempts EXCEPT ![a].raw = i,
                                        ![a].readyCount = @ + Count(evs, "ready"),
                                        ![a].errorCount = @ + Count(evs, "error")]
  /\ lastOp' = Op("subphase", a)
  /\ UNCHANGED <<instance, chainId, abortController, opCount>>
  /\ UNCHANGED <<configVars, composableVars, coreVars, emitterVars, gwVars, reactVars, vueVars>>

\* what connect() emits after a successful, un-cancelled await: setStatus("ready"); emit("ready")
ReadyEmits_Twice(cur, a) == SetStatusEmits(cur, "ready") \o <<ReadyEv(a), ReadyEv(a)>>
ReadyEmits(cur, a) == SetStatusEmits(cur, "ready") \o <<ReadyEv(a)>>

\* what the catch block emits for an un-cancelled failure: setStatus("error"); emit("error", err)
\* the catch block emitting the error event before it writes the status
ErrorEmits_EventFirst(cur, err) == <<ErrorEv(err)>> \o SetStatusEmits(cur, "error")
ErrorEmits(cur, err) == SetStatusEmits(cur, "error") \o <<ErrorEv(err)>>

\* createFhevmInstance of attempt a resolves with an instance: connect() resumes after the await
Resolved(a) ==
  /\ attempts[a].st = "inflight"
  /\ lastOp' = Op("resolved", a)
  /\ IF SignalAborted(attempts, a)
       THEN \* signal.aborted: return
            /\ attempts' = Settle(attempts, a, "resolved", "resolved", NoError, <<>>)
            /\ Emit(<<>>)
            /\ UNCHANGED <<status, instance>>
       ELSE /\ instance' = a
            /\ status' = "ready"
            /\ Emit(ReadyEmits(status, a))
            /\ attempts' = Settle(attempts, a, "resolved", "resolved", NoError,
                                  ReadyEmits(status, a))
  /\ UNCHANGED <<chainId, abortController, opCount>>
  /\ UNCHANGED <<configVars, composableVars, coreVars, emitterVars, gwVars, reactVars, vueVars>>

\* createFhevmInstance of attempt a rejects with reason r: connect() resumes in its catch block
Rejected(a, r) ==
  /\ attempts[a].st = "inflight"
  /\ lastOp' = OpR("rejected", a, r)
  /\ IF SignalAborted(attempts, a)
       THEN \* signal.aborted: setStatus("disconnected"); return
            /\ status' = "disconnected"
            /\ Emit(SetStatusEmits(status, "disconnected"))
            /\ attempts' = Settle(attempts, a, "rejected", "resolved", NoError,
                                  SetStatusEmits(status, "disconnected"))
       ELSE /\ status' = "error"
            /\ Emit(ErrorEmits(status, NormalizeError(r)))
            /\ attempts' = Settle(attempts, a, "rejected", "rejected", NormalizeError(r),
                                  ErrorEmits(status, NormalizeError(r)))
  /\ UNCHANGED <<instance, chainId, abortController, opCount>>
  /\ UNCHANGED <<configVars, composableVars, coreVars, emitterVars, gwVars, reactVars, vueVars>>

\* ------------------------------------------------------------------------
\* FhevmClient.disconnect() and reconnect()
\* ------------------------------------------------------------------------
\* disconnect() without `this._instance = undefined`
Disconnect_KeepsInstance ==
  /\ opCount < MaxOps
  /\ opCount' = opCount + 1
  /\ attempts' = AbortStored(attempts)
  /\ abortController' = Undefined
  /\ instance' = instance
  /\ chainId' = Undefined
  /\ status' = "disconnected"
  /\ Emit(SetStatusEmits(status, "disconnected") \o <<DisconnectEv>>)
  /\ lastOp' = Op("disconnect", 0)
  /\ UNCHANGED <<configVars, composableVars, coreVars, emitterVars, gwVars, reactVars, vueVars>>

\* disconnect()
Disconnect ==
  /\ opCount < MaxOps
  /\ opCount' = opCount + 1
  /\ attempts' = AbortStored(attempts)
  /\ abortController' = Undefined
  /\ instance' = Undefined
  /\ chainId' = Undefined
  /\ status' = "disconnected"
  /\ Emit(SetStatusEmits(status, "disconnected") \o <<DisconnectEv>>)
  /\ lastOp' = Op("disconnect", 0)
  /\ UNCHANGED <<configVars, composableVars, coreVars, emitterVars, gwVars, reactVars, vueVars>>

\* reconnect() as connect() alone
Reconnect_ConnectOnly ==
  /\ opCount < MaxOps
  /\ NextAttemptId <= MaxAttempts
  /\ opCount' = opCount + 1
  /\ IF ConnectIsNoOp(status)
       THEN /\ lastOp' = Op("reconnect", 0)
            /\ Emit(<<>>)
            /\ UNCHANGED <<status, abortController, attempts>>
       ELSE LET a == NextAttemptId IN
              /\ attempts' = [AbortStored(attempts) EXCEPT ![a].st = "inflight",
                                                           ![a].promise = "pending"]
              /\ abortController' = a
              /\ status' = "connecting"
              /\ Emit(SetStatusEmits(status, "connecting"))
              /\ lastOp' = Op("reconnect", a)
  /\ UNCHANGED <<instance, chainId>>
  /\ UNCHANGED <<configVars, composableVars, coreVars, emitterVars, gwVars, reactVars, vueVars>>

\* reconnect(): disconnect(), then connect() runs to its first await in the same turn;
\* disconnect() leaves the status "disconnected", so connect() never takes its early return
Reconnect ==
  /\ opCount < MaxOps
  /\ NextAttemptId <= MaxAttempts
  /\ ~ConnectIsNoOp("disconnected")
  /\ opCount' = opCount + 1
  /\ LET a == NextAttemptId IN
       /\ attempts' = [AbortStored(attempts) EXCEPT ![a].st = "inflight", ![a].promise = "pending",
                                                  ![a].provider = ProviderArg(config)]
       /\ abortController' = a
       /\ lastOp' = Op("reconnect", a)
  /\ instance' = Undefined
  /\ chainId' = Undefined
  /\ status' = "connecting"
  /\ Emit(SetStatusEmits(status, "disconnected") \o <<DisconnectEv>>
            \o SetStatusEmits("disconnected", "connecting"))
  /\ UNCHANGED <<configVars, composableVars, coreVars, emitterVars, gwVars, reactVars, vueVars>>

\* ------------------------------------------------------------------------
\* Specification of the client with the React binding attached
\* ------------------------------------------------------------------------
vars == <<configVars, composableVars, coreVars, emitterVars, clientVars, hookVars, gwVars, reactVars, vueVars>>

Next ==
  \/ Connect
  \/ Disconnect
  \/ Reconnect
  \/ \E a \in Attempts, i \in 1..Len(RawStatuses) : OnStatusChange(a, i)
  \/ \E a \in Attempts : Resolved(a)
  \/ \E a \in Attempts, r \in RejectReasons : Rejected(a, r)

Spec == Init /\ [][Next]_vars

\* the same client driven by a createFhevmInstance that checks its signal before every
\* report: a cancelled call reports no further sub-phase
CapabilityChecksSignal(a) == ~attempts[a].aborted

NextCoop ==
  \/ Connect
  \/ Disconnect
  \/ Reconnect
  \/ \E a \in Attempts, i \in 1..Len(RawStatuses) :
        CapabilityChecksSignal(a) /\ OnStatusChange(a, i)
  \/ \E a \in Attempts : Resolved(a)
  \/ \E a \in Attempts, r \in RejectReasons : Rejected(a, r)

SpecCoop == Init /\ [][NextCoop]_vars

\* the client constructed with any combination of network and fallbackRpc;
\* createFhevmInstance reports no sub-phase here (the reports are optional)
InitConfig ==
  /\ \E n \in {NoProvider, "wallet"}, f \in {NoProvider, "http://localhost:8545"},
        cid \in {Undefined, 31337} :
       InitClientWith([network |-> n, fallbackRpc |-> f, chainId |-> cid])
  /\ InitCoreIdle
  /\ gwProps = [signer |-> TRUE, contractAddress |-> TRUE]
  /\ InitGatewayIdle
  /\ InitReactIdle
  /\ InitVueIdle

NextConfig ==
  \/ Connect
  \/ Disconnect
  \/ Reconnect
  \/ \E a \in Attempts : Resolved(a)
  \/ \E a \in Attempts, r \in RejectReasons : Rejected(a, r)

SpecConfig == InitConfig /\ [][NextConfig]_vars

\* ------------------------------------------------------------------------
\* Claims about FhevmClient
\* ------------------------------------------------------------------------
\* the step settles the createFhevmInstance call of attempt a
SettleStep(a) == attempts[a].st = "inflight" /\ attempts'[a].st = "settled"

\* attempt a was superseded by a later connect() or reconnect()
NewerAttemptStarted(a) == \E b \in Attempts : b > a /\ attempts[b].st # "unused"

\* C1: cancellation silence. When the instance-creation call of an attempt settles after a
\* later connect() or reconnect() started a newer attempt, the client emits no event and
\* the status stays what it was.
ClaimC1 ==
  [][\A a \in Attempts :
       (SettleStep(a) /\ NewerAttemptStarted(a)) => (emitted' = <<>> /\ status' = status)]_vars

\* C2: in every reachable state, the instance is defined only if the status is 'ready'.
ClaimC2 == instance # Undefined => status = "ready"

\* C3: after disconnect() and until the next connect() or reconnect(), the status is
\* 'disconnected' and instance and chainId are undefined, whatever the earlier
\* instance-creation calls do (report a sub-phase, resolve, reject).
\* (The controller is null exactly from a disconnect() to the next started attempt.)
ClaimC3 ==
  (opCount > 0 /\ abortController = Undefined)
    => (status = "disconnected" /\ instance = Undefined /\ chainId = Undefined)

\* C7: a connect() called while the status is 'connecting' or 'ready' emits nothing and
\* changes neither status, instance, the cancellation token, nor starts an
\* instance-creation call.
ClaimC7 ==
  [][(opCount' = opCount + 1 /\ lastOp'.op = "connect" /\ status \in {"connecting", "ready"})
       => /\ emitted' = <<>>
          /\ status' = status
          /\ instance' = instance
          /\ abortController' = abortController
          /\ attempts' = attempts]_vars

WitnessC7 ==
  /\ lastOp = Op("connect", 0)
  /\ status = "connecting"
  /\ InFlight # {}

\* C8: an attempt that was not superseded before it settled has emitted exactly one `ready`
\* and no `error` if its instance-creation call resolved, exactly one `error` and no
\* `ready` if it rejected.
ClaimC8 ==
  \A a \in Attempts :
    (attempts[a].st = "settled" /\ ~attempts[a].abortedAtSettle) =>
      /\ attempts[a].settledAs = "resolved" =>
            (attempts[a].readyCount = 1 /\ attempts[a].errorCount = 0)
      /\ attempts[a].settledAs = "rejected" =>
            (attempts[a].errorCount = 1 /\ attempts[a].readyCount = 0)

WitnessC8 ==
  \E a, b \in Attempts :
    /\ attempts[a].st = "settled" /\ ~attempts[a].abortedAtSettle
    /\ attempts[a].settledAs = "rejected" /\ attempts[a].errorCount = 1
    /\ attempts[b].st = "settled" /\ ~attempts[b].abortedAtSettle
    /\ attempts[b].settledAs = "resolved" /\ attempts[b].readyCount = 1

ClaimC10 ==
  \A a \in Attempts :
    /\ (attempts[a].st = "settled" /\ attempts[a].abortedAtSettle) =>
          /\ attempts[a].readyCount = 0
          /\ attempts[a].errorCount = 0
          /\ attempts[a].promise = "resolved"
          /\ instance # a
    /\ (attempts[a].st = "inflight" /\ attempts[a].aborted) =>
          /\ attempts[a].readyCount = 0
          /\ attempts[a].errorCount = 0
          /\ attempts[a].promise = "pending"
          /\ instance # a

WitnessC10 ==
  \E a, b \in Attempts :
    /\ attempts[a].st = "settled" /\ attempts[a].abortedAtSettle
    /\ attempts[a].settledAs = "rejected"
    /\ attempts[b].st = "settled" /\ attempts[b].abortedAtSettle
    /\ attempts[b].settledAs = "resolved"

\* the payloads of the statusChange events among evs, in order
RECURSIVE StatusPayloads(_)
StatusPayloads(evs) ==
  IF evs = <<>> THEN <<>>
  ELSE (IF Head(evs).type = "statusChange" THEN <<Head(evs).status>> ELSE <<>>)
         \o StatusPayloads(Tail(evs))

\* C15: no two consecutive statusChange events carry the same status, each payload is the
\* client's status when it is emitted, and assigning the status the client already has
\* emits nothing. hookStatus holds the payload of the latest statusChange delivered before
\* the step (the initial status before any); the step's own events are in emitted'.
ClaimC15 ==
  [][LET ps == StatusPayloads(emitted')
         all == <<hookStatus>> \o ps
     IN /\ hookStatus = status
        /\ \A i \in 1..(Len(all) - 1) : all[i] # all[i + 1]
        /\ ps # <<>> => ps[Len(ps)] = status'
        /\ ps = <<>> => status' = status]_vars

\* the capability reported 'sdk-loaded' after 'sdk-loading': setStatus was called with the
\* status the client already had and emitted nothing
WitnessC15 ==
  /\ lastOp.op = "subphase"
  /\ attempts[lastOp.attempt].raw = 2
  /\ status = "sdk-loading"
  /\ emitted = <<>>

\* C16: reconnect() is disconnect() followed by connect(). From every status it aborts
\* every attempt still in flight, clears the instance and the chain id, emits `disconnect`
\* and then statusChange('connecting'), and starts exactly one new instance-creation call,
\* whose connect() promise is the one reconnect() awaits; it is never a no-op.
ClaimC16 ==
  [][(lastOp'.op = "reconnect" /\ opCount' = opCount + 1) =>
       LET a == lastOp'.attempt IN
         /\ a \in Attempts
         /\ attempts[a].st = "unused"
         /\ attempts'[a].st = "inflight"
         /\ attempts'[a].promise = "pending"
         /\ ~attempts'[a].aborted
         /\ \A b \in Attempts \ {a} :
              /\ attempts'[b].st = attempts[b].st
              /\ attempts[b].st = "inflight" => attempts'[b].aborted
         /\ abortController' = a
         /\ instance' = Undefined
         /\ chainId' = Undefined
         /\ status' = "connecting"
         /\ Len(emitted') >= 2
         /\ emitted'[Len(emitted') - 1] = DisconnectEv
         /\ emitted'[Len(emitted')] = StatusChangeEv("connecting")
         /\ hookInstance' = Undefined]_vars

\* reconnect() was called while the client was 'ready' and, later, while it was connecting
WitnessC16 ==
  /\ lastOp.op = "reconnect"
  /\ \E b \in Attempts :
       /\ attempts[b].st = "settled" /\ attempts[b].settledAs = "resolved"
       /\ attempts[b].readyCount = 1
  /\ \E b \in Attempts \ {lastOp.attempt} : attempts[b].st = "inflight" /\ attempts[b].aborted

\* C17: disconnect() is idempotent. A second disconnect() right after a first leaves the
\* status 'disconnected', the instance, the chain id and the cancellation token absent,
\* aborts nothing more and emits no further statusChange.
ClaimC17 ==
  [][(lastOp.op = "disconnect" /\ lastOp'.op = "disconnect" /\ opCount' = opCount + 1) =>
       /\ status = "disconnected" /\ status' = "disconnected"
       /\ instance = Undefined /\ instance' = Undefined
       /\ chainId = Undefined /\ chainId' = Undefined
       /\ abortController = Undefined /\ abortController' = Undefined
       /\ attempts' = attempts
       /\ Count(emitted', "statusChange") = 0
       /\ hookStatus' = hookStatus]_vars

\* disconnect() was called twice in a row on a client that had been 'ready'
WitnessC17 ==
  /\ lastOp.op = "disconnect"
  /\ emitted = <<DisconnectEv>>
  /\ opCount >= 3
  /\ \E b \in Attempts : attempts[b].readyCount = 1

\* C23: no automatic retry. While the status is 'error', a step that is not a call of
\* connect(), reconnect() or disconnect() starts no attempt and leaves the status 'error';
\* a connect() issued from 'error' starts a new attempt.
ClaimC23 ==
  [][/\ (status = "error" /\ opCount' = opCount) =>
          (status' = "error" /\ Started' = Started)
     /\ (status = "error" /\ opCount' = opCount + 1 /\ lastOp'.op = "connect") =>
          (/\ lastOp'.attempt \in Started' \ Started
           /\ attempts'[lastOp'.attempt].st = "inflight")]_vars

\* the position of a status in the order of a connection attempt; 0 outside it
PhaseOrder == <<"connecting", "sdk-loading", "sdk-initializing", "creating-instance", "ready">>
Rank(s) == IF \E i \in 1..Len(PhaseOrder) : PhaseOrder[i] = s
             THEN CHOOSE i \in 1..Len(PhaseOrder) : PhaseOrder[i] = s
             ELSE 0

\* attempt a is the client's current attempt: started, not cancelled, not yet settled
LiveAttempt(a) == abortController = a /\ attempts[a].st = "inflight" /\ ~attempts[a].aborted

\* C24: while an attempt is the current one and is not cancelled, every statusChange that
\* is emitted up to and including its own success carries a status of connecting, sdk-loading, sdk-initializing,
\* creating-instance, ready that lies strictly after the status the client had before.
\* (The sub-phases of one call are reported in order: CapabilityReports.)
ClaimC24 ==
  [][\A a \in Attempts :
       (/\ LiveAttempt(a) /\ ~attempts'[a].aborted
        /\ (attempts'[a].st = "inflight" \/ attempts'[a].settledAs = "resolved")) =>
          \A k \in 1..Len(StatusPayloads(emitted')) :
             /\ Rank(StatusPayloads(emitted')[k]) > 0
             /\ Rank(StatusPayloads(emitted')[k]) > Rank(status)]_vars

\* C29: when config.network is undefined and config.fallbackRpc is set, every connection
\* attempt hands fallbackRpc to createFhevmInstance as the provider.
ClaimC29 ==
  \A a \in Started :
     (config.network = NoProvider /\ config.fallbackRpc # NoProvider) =>
        attempts[a].provider = config.fallbackRpc

\* C31: when the instance-creation call of an attempt rejects after the attempt was
\* cancelled, the status is 'disconnected' right after the step and the connect() promise
\* of the attempt resolves (nothing is thrown).
ClaimC31 ==
  [][\A a \in Attempts :
       (SettleStep(a) /\ attempts[a].aborted /\ attempts'[a].settledAs = "rejected") =>
          /\ status' = "disconnected"
          /\ attempts'[a].promise = "resolved"
          /\ attempts'[a].thrown = NoError]_vars

\* the call of a cancelled attempt rejected while a newer attempt was connecting
WitnessC31 ==
  /\ lastOp.op = "rejected"
  /\ attempts[lastOp.attempt].abortedAtSettle
  /\ attempts[lastOp.attempt].promise = "resolved"
  /\ status = "disconnected"
  /\ \E b \in Attempts : b > lastOp.attempt /\ attempts[b].st = "inflight"

\* the attempts that are in flight and not cancelled
LiveAttempts == {a \in InFlight : ~attempts[a].aborted}

\* C32: at most one attempt is both in flight and not cancelled; a connect() that starts
\* an attempt, and a disconnect(), abort the signal of the attempt started before.
ClaimC32 ==
  /\ [](Cardinality(LiveAttempts) <= 1)
  /\ [][(abortController # Undefined /\ abortController' # abortController) =>
          attempts'[abortController].aborted]_vars

\* two attempts are in flight, the older one cancelled
WitnessC32 ==
  /\ Cardinality(InFlight) = 2
  /\ Cardinality(LiveAttempts) = 1
  /\ \A a \in LiveAttempts : abortController = a

\* C33: the React useFhevm binding mirrors its client. After every step (the listeners
\* run inside emit, so every event of the step is delivered) the hook's status is the
\* client's status and the hook's instance is the client's instance.
ClaimC33 == hookStatus = status /\ hookInstance = instance

\* the statuses of a connection attempt under way
TransitionalStatuses == {"connecting", "sdk-loading", "sdk-initializing", "creating-instance"}

\* C36: once every instance-creation call has settled, the status is at rest: it is not
\* connecting, sdk-loading, sdk-initializing or creating-instance when no call is in
\* flight. (From such a state only a caller operation changes the status, so a violation
\* is a status that stays transitional for ever once the caller stops.)
ClaimC36 == InFlight = {} => status \notin TransitionalStatuses

\* C37: status 'ready' implies that the instance is defined and is the one produced by
\* the most recently started attempt.
ClaimC37 ==
  status = "ready" => (instance # Undefined /\ instance = Cardinality(Started))

\* the second attempt made the client ready while the first, cancelled, had resolved
WitnessC37 ==
  /\ status = "ready" /\ instance = 2
  /\ attempts[1].st = "settled" /\ attempts[1].settledAs = "resolved"
  /\ attempts[1].abortedAtSettle

\* the status the client has when event k of evs is emitted, cur being the status before
\* the first of them
RECURSIVE StatusAt(_, _, _)
StatusAt(cur, evs, k) ==
  IF k <= 1 THEN cur
  ELSE IF evs[k - 1].type = "statusChange" THEN evs[k - 1].status
       ELSE StatusAt(cur, evs, k - 1)

\* the status a ready, error or disconnect event belongs to
StatusFor(type) ==
  CASE type = "ready" -> "ready" [] type = "error" -> "error" [] OTHER -> "disconnected"

\* C38: every ready, error and disconnect event follows the status write that belongs to
\* it: when it is emitted the status is 'ready', 'error', 'disconnected' respectively, the
\* event emitted just before it in the same operation, if any, is the statusChange of that
\* write, and the instance is stored (ready) or cleared (disconnect).
ClaimC38 ==
  [][\A k \in 1..Len(emitted') :
       emitted'[k].type \in {"ready", "error", "disconnect"} =>
          /\ StatusAt(status, emitted', k) = StatusFor(emitted'[k].type)
          /\ k > 1 => emitted'[k - 1] = StatusChangeEv(StatusFor(emitted'[k].type))
          /\ emitted'[k].type = "ready" => instance' = emitted'[k].inst
          /\ emitted'[k].type = "disconnect" => instance' = Undefined]_vars

\* reconnect() on a ready client emitted statusChange(disconnected), disconnect,
\* statusChange(connecting)
WitnessC38 ==
  /\ lastOp.op = "reconnect"
  /\ Len(emitted) = 3
  /\ emitted[2] = DisconnectEv
  /\ \E b \in Attempts : attempts[b].readyCount = 1

Use(cap, inst) == [cap |-> cap, inst |-> inst, clientStatus |-> status]

\* canEncrypt without the contract address
CanEncrypt_NoAddress == hookInstance # Undefined /\ gwProps.signer
\* useEncrypt: canEncrypt for the instance the hook currently exposes
CanEncrypt == hookInstance # Undefined /\ gwProps.signer /\ gwProps.contractAddress

\* encrypt(buildFn) up to `await signer.getAddress()`
EncryptCall ==
  /\ gwCalls < MaxGatewayCalls
  /\ enc.pc = "idle"
  /\ gwCalls' = gwCalls + 1
  /\ IF hookInstance = Undefined \/ ~gwProps.signer \/ ~gwProps.contractAddress
       THEN enc' = [pc |-> "idle", inst |-> Undefined, outcome |-> "undefined"]
       ELSE enc' = [pc |-> "address", inst |-> hookInstance, outcome |-> "pending"]
  /\ UNCHANGED <<configVars, composableVars, coreVars, emitterVars, clientVars, hookVars, reactVars, vueVars, gwProps, dec, lastUse>>

\* signer.getAddress() settles; on success createEncryptedInput calls
\* instance.createEncryptedInput, runs buildFn and awaits input.encrypt()
EncryptAddressSettled(ok) ==
  /\ enc.pc = "address"
  /\ IF ok
       THEN /\ lastUse' = Use("createEncryptedInput", enc.inst)
            /\ enc' = [enc EXCEPT !.pc = "encrypt"]
       ELSE /\ enc' = [enc EXCEPT !.pc = "idle", !.outcome = "rejected"]
            /\ UNCHANGED lastUse
  /\ UNCHANGED <<configVars, composableVars, coreVars, emitterVars, clientVars, hookVars, reactVars, vueVars, gwProps, dec, gwCalls>>

\* input.encrypt() settles: encrypt() resolves with {handles, inputProof} or rejects
EncryptFinalized(ok) ==
  /\ enc.pc = "encrypt"
  /\ enc' = [enc EXCEPT !.pc = "idle", !.outcome = IF ok THEN "result" ELSE "rejected"]
  /\ UNCHANGED <<configVars, composableVars, coreVars, emitterVars, clientVars, hookVars, reactVars, vueVars, gwProps, dec, lastUse, gwCalls>>

\* decrypt(instance, requests, signer, storage) called with the borrowed instance, up to
\* `await FhevmDecryptionSignature.loadOrSign(...)`
DecryptCall(nonEmpty) ==
  /\ gwCalls < MaxGatewayCalls
  /\ dec.pc = "idle"
  /\ gwCalls' = gwCalls + 1
  /\ IF hookInstance = Undefined \/ ~gwProps.signer \/ ~nonEmpty
       THEN dec' = [pc |-> "idle", inst |-> Undefined, outcome |-> "empty"]
       ELSE dec' = [pc |-> "signature", inst |-> hookInstance, outcome |-> "pending"]
  /\ UNCHANGED <<configVars, composableVars, coreVars, emitterVars, clientVars, hookVars, reactVars, vueVars, gwProps, enc, lastUse>>

\* loadOrSign settles with a signature, with null, or by throwing; with a signature
\* decrypt goes on to call instance.userDecrypt
DecryptSignatureSettled(sig) ==
  /\ dec.pc = "signature"
  /\ IF sig = "signature"
       THEN /\ lastUse' = Use("userDecrypt", dec.inst)
            /\ dec' = [dec EXCEPT !.pc = "userDecrypt"]
       ELSE /\ dec' = [dec EXCEPT !.pc = "idle", !.outcome = "rejected"]
            /\ UNCHANGED lastUse
  /\ UNCHANGED <<configVars, composableVars, coreVars, emitterVars, clientVars, hookVars, reactVars, vueVars, gwProps, enc, gwCalls>>

\* instance.userDecrypt settles: decrypt resolves with the values or rejects
DecryptSettled(ok) ==
  /\ dec.pc = "userDecrypt"
  /\ dec' = [dec EXCEPT !.pc = "idle", !.outcome = IF ok THEN "result" ELSE "rejected"]
  /\ UNCHANGED <<configVars, composableVars, coreVars, emitterVars, clientVars, hookVars, reactVars, vueVars, gwProps, enc, lastUse, gwCalls>>

InitGateway ==
  /\ InitClient
  /\ gwProps \in [signer : BOOLEAN, contractAddress : BOOLEAN]
  /\ InitGatewayIdle
  /\ InitReactIdle
  /\ InitVueIdle

\* the client with the gateways of one component; createFhevmInstance reports no
\* sub-phase here (the reports are optional)
NextGateway ==
  \/ Connect
  \/ Disconnect
  \/ Reconnect
  \/ \E a \in Attempts : Resolved(a)
  \/ \E a \in Attempts, r \in RejectReasons : Rejected(a, r)
  \/ EncryptCall
  \/ \E ok \in BOOLEAN : EncryptAddressSettled(ok)
  \/ \E ok \in BOOLEAN : EncryptFinalized(ok)
  \/ \E nonEmpty \in BOOLEAN : DecryptCall(nonEmpty)
  \/ \E sig \in {"signature", "null", "throws"} : DecryptSignatureSettled(sig)
  \/ \E ok \in BOOLEAN : DecryptSettled(ok)

SpecGateway == InitGateway /\ [][NextGateway]_vars

\* C4: no gateway invokes a capability of an Instance (createEncryptedInput, userDecrypt)
\* at a moment when the owning client's status is not 'ready'.
ClaimC4 == lastUse.cap # "none" => lastUse.clientStatus = "ready"

\* C13: the promise returned by a gateway operation never rejects; a failure of the signer
\* or of the encrypted-input builder is exposed through the gateway's state. Stated for
\* the promise of useEncrypt's encrypt, whose outcome enc.outcome records.
ClaimC13 == enc.outcome # "rejected"

\* C22: canEncrypt is true exactly when instance, signer and contract address are all
\* present, and an encrypt(buildFn) called while canEncrypt is false resolves to undefined
\* at once: it does not reach signer.getAddress() and uses no capability of the instance.
ClaimC22 ==
  [][/\ CanEncrypt <=> (hookInstance # Undefined /\ gwProps.signer /\ gwProps.contractAddress)
     /\ (gwCalls' = gwCalls + 1 /\ enc' # enc /\ ~CanEncrypt) =>
          /\ enc' = [pc |-> "idle", inst |-> Undefined, outcome |-> "undefined"]
          /\ lastUse' = lastUse]_vars

\* encrypt was called without a contract address on a hook that has an instance and a
\* signer, and resolved to undefined
WitnessC22 ==
  /\ enc.outcome = "undefined"
  /\ hookInstance # Undefined /\ gwProps.signer /\ ~gwProps.contractAddress
  /\ lastUse = NoUse

\* ------------------------------------------------------------------------
\* React useDecrypt
\* ------------------------------------------------------------------------
\* canDecrypt of the current render
ReactCanDecrypt ==
  /\ rProps.instance # Undefined
  /\ rProps.signer
  /\ rProps.storage
  /\ rProps.chainId # 0
  /\ rProps.requests.defined
  /\ Len(rProps.requests.items) > 0

\* isStale of the render whose requestsKey is renderKey: the closure compares the ref
\* with the requestsKey it captured
ReactIsStale(renderKey) == lastReqKeyRef # renderKey

\* the component re-renders with another `requests`
ReactSetRequests(rq) ==
  /\ rq # rProps.requests
  /\ rProps' = [rProps EXCEPT !.requests = rq]
  /\ UNCHANGED <<rIsDecrypting, rResults, rMessage, rError, isDecryptingRef, lastReqKeyRef,
                 rInflight, rCallCount, rLastSettle>>
  /\ UNCHANGED <<configVars, composableVars, coreVars, emitterVars, clientVars, hookVars, gwVars, vueVars>>

\* the component re-renders with another `instance`
ReactSetInstance(inst) ==
  /\ inst # rProps.instance
  /\ rProps' = [rProps EXCEPT !.instance = inst]
  /\ UNCHANGED <<rIsDecrypting, rResults, rMessage, rError, isDecryptingRef, lastReqKeyRef,
                 rInflight, rCallCount, rLastSettle>>
  /\ UNCHANGED <<configVars, composableVars, coreVars, emitterVars, clientVars, hookVars, gwVars, vueVars>>

\* the guard doDecrypt returns on, without the check of the in-flight ref
ReactDoDecryptReturns_NoRef ==
  \/ ~ReactCanDecrypt
  \/ rProps.instance = Undefined
  \/ ~rProps.signer
  \/ ~rProps.requests.defined

\* the guard doDecrypt returns on before it touches any state
ReactDoDecryptReturns ==
  \/ ~ReactCanDecrypt
  \/ rProps.instance = Undefined
  \/ ~rProps.signer
  \/ ~rProps.requests.defined
  \/ isDecryptingRef

\* doDecrypt of the current render, up to `await decrypt(instance, requests, signer, storage)`
ReactDecryptCall ==
  /\ rCallCount < MaxDecryptCalls
  /\ rCallCount' = rCallCount + 1
  /\ IF ReactDoDecryptReturns
       THEN UNCHANGED <<rIsDecrypting, rResults, rMessage, rError, isDecryptingRef,
                        lastReqKeyRef, rInflight>>
       ELSE /\ isDecryptingRef' = TRUE
            /\ lastReqKeyRef' = RequestsKey(rProps.requests)
            /\ rIsDecrypting' = TRUE
            /\ rError' = NullText
            /\ rMessage' = Text("Loading decryption signature...", "")
            /\ rInflight' = rInflight \cup
                   {[id |-> rCallCount + 1, renderKey |-> RequestsKey(rProps.requests),
                     batch |-> rProps.requests.items]}
            /\ UNCHANGED rResults
  /\ UNCHANGED <<rProps, rLastSettle>>
  /\ UNCHANGED <<configVars, composableVars, coreVars, emitterVars, clientVars, hookVars, gwVars, vueVars>>

\* the finally block of doDecrypt
ReactFinally(c) ==
  IF ~ReactIsStale(c.renderKey)
    THEN rIsDecrypting' = FALSE /\ isDecryptingRef' = FALSE
    ELSE UNCHANGED <<rIsDecrypting, isDecryptingRef>>

\* core decrypt of call c resolves: doDecrypt resumes after the await
ReactDecryptResolved(c) ==
  /\ c \in rInflight
  /\ rInflight' = rInflight \ {c}
  /\ IF ReactIsStale(c.renderKey)
       THEN /\ rMessage' = CancelledText
            /\ UNCHANGED <<rResults, rError>>
       ELSE /\ rResults' = DecryptedFor(c.batch)
            /\ rMessage' = Text("Decryption successful", "")
            /\ rError' = NullText
  /\ ReactFinally(c)
  /\ rLastSettle' = Settled(c, "resolved")
  /\ UNCHANGED <<rProps, lastReqKeyRef, rCallCount>>
  /\ UNCHANGED <<configVars, composableVars, coreVars, emitterVars, clientVars, hookVars, gwVars, vueVars>>

\* core decrypt of call c rejects with reason r: doDecrypt resumes in its catch block
ReactDecryptRejected(c, r) ==
  /\ c \in rInflight
  /\ rInflight' = rInflight \ {c}
  /\ IF ReactIsStale(c.renderKey)
       THEN /\ rMessage' = CancelledText
            /\ UNCHANGED rError
       ELSE /\ rError' = Text("", ErrMessage(r))
            /\ rMessage' = Text("Decryption failed: ", ErrMessage(r))
  /\ ReactFinally(c)
  /\ rLastSettle' = Settled(c, "rejected")
  /\ UNCHANGED <<rProps, rResults, lastReqKeyRef, rCallCount>>
  /\ UNCHANGED <<configVars, composableVars, coreVars, emitterVars, clientVars, hookVars, gwVars, vueVars>>

InitReact ==
  /\ InitClient
  /\ gwProps = [signer |-> TRUE, contractAddress |-> TRUE]
  /\ InitGatewayIdle
  /\ InitVueIdle
  /\ \E sg \in BOOLEAN, cid \in {Undefined, 31337} :
       InitReactWith([instance |-> Undefined, signer |-> sg, storage |-> TRUE, chainId |-> cid,
                      requests |-> UndefinedRequests])

NextReact ==
  \/ \E rq \in {UndefinedRequests} \cup {Requests(b) : b \in Batches} : ReactSetRequests(rq)
  \/ \E inst \in {Undefined, 1} : ReactSetInstance(inst)
  \/ ReactDecryptCall
  \/ \E c \in rInflight : ReactDecryptResolved(c)
  \/ \E c \in rInflight, r \in RejectReasons : ReactDecryptRejected(c, r)

SpecReact == InitReact /\ [][NextReact]_vars

\* C5: staleness discard in the React hook. When the core decrypt of a call settles while
\* the hook's requests have another identity than the batch the call was started for, the
\* settlement stores nothing in `results`, sets no error, and `message` reports the
\* cancellation.
ClaimC5 ==
  [][\A c \in rInflight :
       (c \notin rInflight' /\ c.renderKey # RequestsKey(rProps.requests)) =>
         /\ rResults' = rResults
         /\ rError' = rError
         /\ rMessage' = CancelledText]_vars

\* C11: single flight in the React hook. A decrypt() issued while an earlier decrypt() of
\* the hook is still in flight starts no core decrypt and changes nothing the hook exposes,
\* and no state holds more than one core decrypt in flight.
ClaimC11 ==
  [][/\ Cardinality(rInflight') <= 1
     /\ (rCallCount' = rCallCount + 1 /\ rInflight # {}) =>
           /\ rInflight' = rInflight
           /\ UNCHANGED <<rIsDecrypting, rResults, rMessage, rError, isDecryptingRef,
                          lastReqKeyRef>>]_vars

\* a decrypt() was issued, and ignored, while the first call of the hook was in flight
WitnessC11 ==
  /\ rCallCount = 2
  /\ Cardinality(rInflight) = 1
  /\ \A c \in rInflight : c.id = 1
  /\ ReactCanDecrypt

\* C21: canDecrypt is true exactly when an instance, a signer, a storage adapter and a
\* non-empty request batch are all present; nothing else changes its value. Stated for
\* React useDecrypt.
ClaimC21 ==
  ReactCanDecrypt <=>
    (/\ rProps.instance # Undefined
     /\ rProps.signer
     /\ rProps.storage
     /\ rProps.requests.defined
     /\ Len(rProps.requests.items) > 0)

\* ------------------------------------------------------------------------
\* Vue useDecrypt
\* ------------------------------------------------------------------------
VueRequestsKey == RequestsKey(Requests(vRequests))

\* isStale()
VueIsStale == lastReqKey # VueRequestsKey

\* canDecrypt.value: the cached value, recomputed only after one of the refs the getter
\* read (instance, requests) changed
VueCanDecryptValue ==
  IF canDecryptCache.dirty
    THEN \* the getter of the computed canDecrypt
         /\ vInstance # Undefined
         /\ vProps.signer
         /\ vProps.storage
         /\ Len(vRequests) > 0
         /\ ~isDecryptingInternal
    ELSE canDecryptCache.value
VueCacheAfterRead == [dirty |-> FALSE, value |-> VueCanDecryptValue]

\* requests.value is assigned; the watcher of requestsKey runs when the key changed
VueSetRequests(b) ==
  /\ b # vRequests
  /\ vRequests' = b
  /\ canDecryptCache' = [canDecryptCache EXCEPT !.dirty = TRUE]
  /\ IF RequestsKey(Requests(b)) # VueRequestsKey
       THEN vResults' = EmptyResults /\ vError' = NullText
       ELSE UNCHANGED <<vResults, vError>>
  /\ UNCHANGED <<vProps, vInstance, vIsDecrypting, vMessage, isDecryptingInternal, lastReqKey,
                 vInflight, vCallCount, vLastSettle>>
  /\ UNCHANGED <<configVars, composableVars, coreVars, emitterVars, clientVars, hookVars, gwVars, reactVars>>

\* instance.value is assigned
VueSetInstance(inst) ==
  /\ inst # vInstance
  /\ vInstance' = inst
  /\ canDecryptCache' = [canDecryptCache EXCEPT !.dirty = TRUE]
  /\ UNCHANGED <<vProps, vRequests, vIsDecrypting, vResults, vMessage, vError,
                 isDecryptingInternal, lastReqKey, vInflight, vCallCount, vLastSettle>>
  /\ UNCHANGED <<configVars, composableVars, coreVars, emitterVars, clientVars, hookVars, gwVars, reactVars>>

\* the component reads canDecrypt (a render, a template binding)
VueReadCanDecrypt ==
  /\ canDecryptCache.dirty
  /\ canDecryptCache' = VueCacheAfterRead
  /\ UNCHANGED <<vProps, vInstance, vRequests, vIsDecrypting, vResults, vMessage, vError,
                 isDecryptingInternal, lastReqKey, vInflight, vCallCount, vLastSettle>>
  /\ UNCHANGED <<configVars, composableVars, coreVars, emitterVars, clientVars, hookVars, gwVars, reactVars>>

\* doDecrypt up to `await decrypt(instance.value, requests.value, signer, storage)`
VueDecryptCall ==
  /\ vCallCount < MaxDecryptCalls
  /\ vCallCount' = vCallCount + 1
  /\ canDecryptCache' = VueCacheAfterRead
  /\ IF ~VueCanDecryptValue
       THEN UNCHANGED <<vIsDecrypting, vMessage, vError, isDecryptingInternal, lastReqKey, vInflight>>
       ELSE /\ isDecryptingInternal' = TRUE
            /\ vIsDecrypting' = TRUE
            /\ lastReqKey' = VueRequestsKey
            /\ vMessage' = Text("Decrypting...", "")
            /\ vError' = NullText
            /\ vInflight' = vInflight \cup {[id |-> vCallCount + 1, batch |-> vRequests]}
  /\ UNCHANGED <<vProps, vInstance, vRequests, vResults, vLastSettle>>
  /\ UNCHANGED <<configVars, composableVars, coreVars, emitterVars, clientVars, hookVars, gwVars, reactVars>>

\* the finally block of doDecrypt
VueFinally ==
  IF ~VueIsStale
    THEN vIsDecrypting' = FALSE /\ isDecryptingInternal' = FALSE
    ELSE UNCHANGED <<vIsDecrypting, isDecryptingInternal>>

\* core decrypt of call c resolves: doDecrypt resumes after the await
VueDecryptResolved(c) ==
  /\ c \in vInflight
  /\ vInflight' = vInflight \ {c}
  /\ IF VueIsStale
       THEN /\ vMessage' = CancelledText
            /\ UNCHANGED vResults
       ELSE /\ vResults' = DecryptedFor(c.batch)
            /\ vMessage' = Text("Decryption successful", "")
  /\ VueFinally
  /\ vLastSettle' = Settled(c, "resolved")
  /\ UNCHANGED <<vProps, vInstance, vRequests, vError, lastReqKey, canDecryptCache, vCallCount>>
  /\ UNCHANGED <<configVars, composableVars, coreVars, emitterVars, clientVars, hookVars, gwVars, reactVars>>

\* core decrypt of call c rejects with reason r: doDecrypt resumes in its catch block
VueDecryptRejected(c, r) ==
  /\ c \in vInflight
  /\ vInflight' = vInflight \ {c}
  /\ IF VueIsStale
       THEN /\ vMessage' = CancelledText
            /\ UNCHANGED vError
       ELSE /\ vError' = Text("Decryption failed: ", ErrMessage(r))
            /\ vMessage' = Text("Decryption failed", "")
  /\ VueFinally
  /\ vLastSettle' = Settled(c, "rejected")
  /\ UNCHANGED <<vProps, vInstance, vRequests, vResults, lastReqKey, canDecryptCache, vCallCount>>
  /\ UNCHANGED <<configVars, composableVars, coreVars, emitterVars, clientVars, hookVars, gwVars, reactVars>>

InitVue ==
  /\ InitClient
  /\ gwProps = [signer |-> TRUE, contractAddress |-> TRUE]
  /\ InitGatewayIdle
  /\ InitReactIdle
  /\ \E sg \in BOOLEAN, b \in Batches : InitVueWith([signer |-> sg, storage |-> TRUE], b)

NextVue ==
  \/ \E b \in Batches : VueSetRequests(b)
  \/ \E inst \in {Undefined, 1} : VueSetInstance(inst)
  \/ VueReadCanDecrypt
  \/ VueDecryptCall
  \/ \E c \in vInflight : VueDecryptResolved(c)
  \/ \E c \in vInflight, r \in RejectReasons : VueDecryptRejected(c, r)

SpecVue == InitVue /\ [][NextVue]_vars

\* C6: staleness discard in the Vue composable. When the core decrypt of a call settles
\* while `requests` has another identity than the batch the call was started for, the
\* settlement stores nothing in `results`, sets no error, and `message` reports the
\* cancellation.
ClaimC6 ==
  [][\A c \in vInflight :
       (c \notin vInflight' /\ RequestsKey(Requests(c.batch)) # VueRequestsKey) =>
         /\ vResults' = vResults
         /\ vError' = vError
         /\ vMessage' = CancelledText]_vars

\* C12: single flight in the Vue composable. A decrypt() issued while an earlier decrypt()
\* of the composable is still in flight, with instance and requests unchanged since that
\* call started, starts no core decrypt; no state holds more than one core decrypt in flight.
ClaimC12 == Cardinality(vInflight) <= 1

\* the core decrypt of call c rejected in this step, c's batch being the current one
VueRejectedCurrent(c) ==
  /\ c \in vInflight
  /\ c \notin vInflight'
  /\ vLastSettle' = Settled(c, "rejected")
  /\ RequestsKey(Requests(c.batch)) = VueRequestsKey

\* C14: when the core decrypt rejects for a batch that is still the current batch, the
\* decryption gateway sets a non-empty error and a failure message, leaves `results` as
\* it was and resets isDecrypting to false. Stated for the Vue composable.
ClaimC14 ==
  [][\A c \in vInflight :
       VueRejectedCurrent(c) =>
         /\ vError' # NullText
         /\ vError'.text = "Decryption failed: "
         /\ vMessage'.text = "Decryption failed"
         /\ vResults' = vResults
         /\ vIsDecrypting' = FALSE]_vars

\* C35: once the core decrypt promise of every decrypt() call has settled, isDecrypting is
\* false again and the in-flight guard is released. Stated for Vue useDecrypt. (No
\* later step but the settlement of a call releases the guard, so a violation is a gateway
\* that stays locked.)
ClaimC35 == vInflight = {} => (vIsDecrypting = FALSE /\ isDecryptingInternal = FALSE)

\* C39: in Vue useDecrypt, results never holds values decrypted for a batch other than
\* the current one: it is empty, or it is what userDecrypt yields for a batch with the
\* current identity key.
ClaimC39 ==
  vResults # EmptyResults =>
     \E b \in Batches : RequestsKey(Requests(b)) = VueRequestsKey /\ vResults = DecryptedFor(b)

\* ------------------------------------------------------------------------
\* Vue useFhevm: the composable that watches the network
\* ------------------------------------------------------------------------
Clients == 1..MaxClients
ClientAttempts == 1..MaxClientAttempts

\* the instance that attempt a of client c creates
InstanceOf(c, a) == c * (MaxClientAttempts + 1) + a

\* the refs after the listeners the composable registered have seen evs, in order
RECURSIVE VfDeliverAll(_, _)
VfDeliverAll(h, evs) ==
  IF evs = <<>> THEN h
  ELSE LET ev == Head(evs)
           next ==
             CASE ev.type = "statusChange" -> [h EXCEPT !.status = ev.status]
               [] ev.type = "ready" -> [h EXCEPT !.instance = ev.inst, !.error = NoError]
               [] ev.type = "error" -> [h EXCEPT !.error = ev.err, !.instance = Undefined]
               [] ev.type = "disconnect" -> [h EXCEPT !.instance = Undefined, !.error = NoError]
               [] OTHER -> h
       IN VfDeliverAll(next, Tail(evs))

\* a step of client cl with the events it emitted
Stepped(cl, evs) == [cl |-> cl, evs |-> evs]

\* abort() on the controller client cl stores, if any
ClientAbortStored(cl) ==
  IF cl.ctrl # Undefined THEN [cl.atts EXCEPT ![cl.ctrl].aborted = TRUE] ELSE cl.atts

ClientNextAttempt(cl) == Cardinality({a \in ClientAttempts : cl.atts[a].st # "unused"}) + 1

\* connect() on client cl, up to `await createFhevmInstance`
ClientConnect(cl) ==
  IF ConnectIsNoOp(cl.st) THEN Stepped(cl, <<>>)
  ELSE LET a == ClientNextAttempt(cl) IN
         Stepped([cl EXCEPT !.atts = [ClientAbortStored(cl) EXCEPT ![a].st = "inflight"],
                            !.ctrl = a, !.st = "connecting"],
                 SetStatusEmits(cl.st, "connecting"))

\* disconnect() on client cl
ClientDisconnect(cl) ==
  Stepped([cl EXCEPT !.atts = ClientAbortStored(cl), !.ctrl = Undefined,
                     !.inst = Undefined, !.st = "disconnected"],
          SetStatusEmits(cl.st, "disconnected") \o <<DisconnectEv>>)

VfRefs == [status |-> vfStatus, instance |-> vfInstance, error |-> vfError]

\* client c took the step s: its listeners, if registered, write the refs
VfApply(c, s) ==
  /\ vfClients' = [vfClients EXCEPT ![c] = s.cl]
  /\ LET h == IF vfClients[c].on THEN VfDeliverAll(VfRefs, s.evs) ELSE VfRefs IN
       /\ vfStatus' = h.status
       /\ vfInstance' = h.instance
       /\ vfError' = h.error

\* the network computed by the caller's config changes
VfNetworkChanges(n) ==
  /\ vfOps < MaxComposableOps
  /\ vfOps' = vfOps + 1
  /\ n # vfNetwork
  /\ vfNetwork' = n
  /\ IF vfMounted = "mounted" /\ n # NoProvider
       THEN \* the watch callback: createFhevmClient, client.value = it, on(...), connect()
            /\ vfCreated < MaxClients
            /\ vfCreated' = vfCreated + 1
            /\ vfClient' = vfCreated + 1
            /\ LET c == vfCreated + 1
                   s == ClientConnect([vfClients[c] EXCEPT !.on = TRUE])
               IN /\ vfClients' = [vfClients EXCEPT ![c] = s.cl]
                  /\ LET h == VfDeliverAll(VfRefs, s.evs) IN
                       /\ vfStatus' = h.status
                       /\ vfInstance' = h.instance
                       /\ vfError' = h.error
       ELSE UNCHANGED <<vfCreated, vfClient, vfClients, vfStatus, vfInstance, vfError>>
  /\ UNCHANGED vfMounted
  /\ UNCHANGED <<configVars, coreVars, emitterVars, clientVars, hookVars, gwVars, reactVars, vueVars>>

\* onMounted: watch(network, ..., {immediate: true}) runs the callback with the network
VfMounted ==
  /\ vfMounted = "setup"
  /\ vfMounted' = "mounted"
  /\ IF vfNetwork # NoProvider
       THEN /\ vfCreated' = vfCreated + 1
            /\ vfClient' = vfCreated + 1
            /\ LET c == vfCreated + 1
                   s == ClientConnect([vfClients[c] EXCEPT !.on = TRUE])
               IN /\ vfClients' = [vfClients EXCEPT ![c] = s.cl]
                  /\ LET h == VfDeliverAll(VfRefs, s.evs) IN
                       /\ vfStatus' = h.status
                       /\ vfInstance' = h.instance
                       /\ vfError' = h.error
       ELSE UNCHANGED <<vfCreated, vfClient, vfClients, vfStatus, vfInstance, vfError>>
  /\ UNCHANGED <<vfNetwork, vfOps>>
  /\ UNCHANGED <<configVars, coreVars, emitterVars, clientVars, hookVars, gwVars, reactVars, vueVars>>

\* reconnect() of the composable: client.value.reconnect(), if there is a client;
\* reconnect() on a client is disconnect(), then connect() up to its await
VfReconnect ==
  /\ vfOps < MaxComposableOps
  /\ vfOps' = vfOps + 1
  /\ IF vfClient # Undefined
       THEN /\ ClientNextAttempt(vfClients[vfClient]) <= MaxClientAttempts
            /\ LET d == ClientDisconnect(vfClients[vfClient])
                   c == ClientConnect(d.cl)
               IN VfApply(vfClient, Stepped(c.cl, d.evs \o c.evs))
       ELSE UNCHANGED <<vfClients, vfStatus, vfInstance, vfError>>
  /\ UNCHANGED <<vfNetwork, vfMounted, vfCreated, vfClient>>
  /\ UNCHANGED <<configVars, coreVars, emitterVars, clientVars, hookVars, gwVars, reactVars, vueVars>>

\* onUnmounted: client.value.disconnect(); client.value.removeAllListeners(). The watcher
\* stops with the component.
VfUnmounted ==
  /\ vfMounted = "mounted"
  /\ vfMounted' = "unmounted"
  /\ IF vfClient # Undefined
       THEN LET s == ClientDisconnect(vfClients[vfClient]) IN
              /\ vfClients' = [vfClients EXCEPT ![vfClient] = [s.cl EXCEPT !.on = FALSE]]
              /\ LET h == VfDeliverAll(VfRefs, s.evs) IN
                   /\ vfStatus' = h.status
                   /\ vfInstance' = h.instance
                   /\ vfError' = h.error
       ELSE UNCHANGED <<vfClients, vfStatus, vfInstance, vfError>>
  /\ UNCHANGED <<vfNetwork, vfCreated, vfClient, vfOps>>
  /\ UNCHANGED <<configVars, coreVars, emitterVars, clientVars, hookVars, gwVars, reactVars, vueVars>>

\* the instance-creation call of attempt a of client c resolves: connect() of that
\* client continues after its await
VfResolved(c, a) ==
  /\ vfClients[c].atts[a].st = "inflight"
  /\ LET cl == vfClients[c]
         settled == [cl EXCEPT !.atts[a].st = "settled"]
     IN IF cl.atts[a].aborted
          THEN VfApply(c, Stepped(settled, <<>>))
          ELSE VfApply(c, Stepped([settled EXCEPT !.inst = InstanceOf(c, a), !.st = "ready"],
                                  ReadyEmits(cl.st, InstanceOf(c, a))))
  /\ UNCHANGED <<vfNetwork, vfMounted, vfCreated, vfClient, vfOps>>
  /\ UNCHANGED <<configVars, coreVars, emitterVars, clientVars, hookVars, gwVars, reactVars, vueVars>>

\* the instance-creation call of attempt a of client c rejects with r: the catch block
\* of connect() of that client runs
VfRejected(c, a, r) ==
  /\ vfClients[c].atts[a].st = "inflight"
  /\ LET cl == vfClients[c]
         settled == [cl EXCEPT !.atts[a].st = "settled"]
     IN IF cl.atts[a].aborted
          THEN VfApply(c, Stepped([settled EXCEPT !.st = "disconnected"],
                                  SetStatusEmits(cl.st, "disconnected")))
          ELSE VfApply(c, Stepped([settled EXCEPT !.st = "error"],
                                  ErrorEmits(cl.st, NormalizeError(r))))
  /\ UNCHANGED <<vfNetwork, vfMounted, vfCreated, vfClient, vfOps>>
  /\ UNCHANGED <<configVars, coreVars, emitterVars, clientVars, hookVars, gwVars, reactVars, vueVars>>

NextVf ==
  \/ \E n \in {"n1", "n2", NoProvider} : VfNetworkChanges(n)
  \/ VfMounted
  \/ VfReconnect
  \/ VfUnmounted
  \/ \E c \in Clients, a \in ClientAttempts : VfResolved(c, a)
  \/ \E c \in Clients, a \in ClientAttempts, r \in RejectReasons : VfRejected(c, a, r)

SpecVf == Init /\ [][NextVf]_vars

\* the clients the composable created that are connecting or connected
VfActiveClients ==
  {c \in Clients : vfClients[c].st \in {"connecting", "sdk-loading", "sdk-initializing",
                                        "creating-instance", "ready"}}

\* C34: in the Vue useFhevm composable at most one of the clients it created is connecting
\* or connected at a time, and a client that was replaced by a newer one never again writes
\* the exposed status, instance or error refs.
ClaimC34 ==
  /\ [](Cardinality(VfActiveClients) <= 1)
  /\ [][\A c \in Clients :
          (c # vfClient' /\ vfClients'[c] # vfClients[c]) =>
             (vfStatus' = vfStatus /\ vfInstance' = vfInstance /\ vfError' = vfError)]_vars

\* ------------------------------------------------------------------------
\* Core functions: requestsKey, getEncryptionMethod, hasValidSignature, decrypt
\* ------------------------------------------------------------------------
MaxBatchLen == 2
MaxTime == 4

ContractAddrs == {"0xC1", "0xC2"}
CoreReqs == {Req(h, c) : h \in {1, 2}, c \in ContractAddrs}

\* the request arrays of at most MaxBatchLen elements
AllBatches == UNION {[1..n -> CoreReqs] : n \in 0..MaxBatchLen}

\* the values of `requests` a decryption hook can be rendered with
KeyBatches == {UndefinedRequests} \cup {Requests(b) : b \in AllBatches}

\* the type names getEncryptionMethod is called with: the eight it knows, and others
KnownTypes ==
  {"externalEbool", "externalEuint8", "externalEuint16", "externalEuint32",
   "externalEuint64", "externalEuint128", "externalEuint256", "externalEaddress"}

DefaultEncryptionMethod == "add64"

\* getEncryptionMethod with the case for externalEuint128 missing
GetEncryptionMethod_No128(internalType) ==
  CASE internalType = "externalEbool" -> "addBool"
    [] internalType = "externalEuint8" -> "add8"
    [] internalType = "externalEuint16" -> "add16"
    [] internalType = "externalEuint32" -> "add32"
    [] internalType = "externalEuint64" -> "add64"
    [] internalType = "externalEuint256" -> "add256"
    [] internalType = "externalEaddress" -> "addAddress"
    [] OTHER -> DefaultEncryptionMethod

\* getEncryptionMethod(internalType): the switch
GetEncryptionMethod(internalType) ==
  CASE internalType = "externalEbool" -> "addBool"
    [] internalType = "externalEuint8" -> "add8"
    [] internalType = "externalEuint16" -> "add16"
    [] internalType = "externalEuint32" -> "add32"
    [] internalType = "externalEuint64" -> "add64"
    [] internalType = "externalEuint128" -> "add128"
    [] internalType = "externalEuint256" -> "add256"
    [] internalType = "externalEaddress" -> "addAddress"
    [] OTHER -> DefaultEncryptionMethod

ResolvesTo(v) == [kind |-> "resolved", value |-> v]
Rejects == [kind |-> "rejected"]

\* hasValidSignature without its try / catch
HasValidSignature_NoCatch(lookup, validity) ==
  IF lookup = "throws" \/ lookup = "undefined" THEN Rejects
  ELSE IF lookup = "null" THEN ResolvesTo(FALSE)
  ELSE IF validity = "throws" THEN Rejects
  ELSE ResolvesTo(validity = "true")

\* hasValidSignature: `signature !== null && signature.isValid()` inside try, `return
\* false` in catch. An undefined signature passes `!== null` and the method call throws.
HasValidSignature(lookup, validity) ==
  IF lookup = "throws" \/ lookup = "undefined" THEN ResolvesTo(FALSE)
  ELSE IF lookup = "null" THEN ResolvesTo(FALSE)
  ELSE IF validity = "throws" THEN ResolvesTo(FALSE)
  ELSE ResolvesTo(validity = "true")

\* the elements of a sequence
Range(s) == {s[i] : i \in 1..Len(s)}

\* Array.from(new Set(s)): the distinct elements in order of first occurrence
RECURSIVE Distinct(_)
Distinct(s) ==
  IF s = <<>> THEN <<>>
  ELSE LET d == Distinct(SubSeq(s, 1, Len(s) - 1))
       IN IF s[Len(s)] \in Range(d) THEN d ELSE Append(d, s[Len(s)])

\* contractAddresses taken from the first request only
ContractAddresses_FirstOnly(requests) == <<requests[1].contractAddress>>

\* contractAddresses = Array.from(new Set(requests.map(r => r.contractAddress)))
ContractAddresses(requests) ==
  Distinct([i \in 1..Len(requests) |-> requests[i].contractAddress])

\* handleContractPairs built from the requests sorted by handle
HandleContractPairs_Sorted(requests) ==
  [i \in 1..Len(requests) |->
     [handle |-> SortByHandle(requests)[i].handle,
      contractAddress |-> SortByHandle(requests)[i].contractAddress]]

\* handleContractPairs = requests.map(r => ({handle, contractAddress}))
HandleContractPairs(requests) ==
  [i \in 1..Len(requests) |->
     [handle |-> requests[i].handle, contractAddress |-> requests[i].contractAddress]]

\* the signer's address, and the users a stored signature can be bound to
SignerAddress == "0xU1"
Durations == 1..2

Signature(start, duration, addrs, user) ==
  [present |-> TRUE, start |-> start, duration |-> duration, addrs |-> addrs, user |-> user]

Call(name, arg) == [call |-> name, arg |-> arg]

\* FhevmDecryptionSignature.loadOrSign(instance, contractAddresses, signer, storage) at
\* time now, with the signer answering signing as the outcome of the signing call says:
\* the signature it returns ("signature", null or throws), the storage afterwards and the
\* calls it made on the signer and the storage
LoadOrSign(store, contractAddresses, user, now, signing, duration) ==
  IF /\ store.present
     /\ now >= store.start /\ now <= store.start + store.duration
     /\ Range(contractAddresses) \subseteq store.addrs
     /\ user = store.user
    THEN [result |-> "signature", signature |-> store, store |-> store, calls |-> <<>>]
    ELSE IF signing = "signed"
           THEN LET fresh == Signature(now, duration, Range(contractAddresses), user)
                IN [result |-> "signature", signature |-> fresh, store |-> fresh,
                    calls |-> <<Call("sign", contractAddresses), Call("persist", fresh)>>]
           ELSE [result |-> signing, signature |-> NoSignature, store |-> store,
                 calls |-> <<Call("sign", contractAddresses)>>]

InitCore ==
  /\ InitClientWith(DefaultConfig)
  /\ gwProps = [signer |-> TRUE, contractAddress |-> TRUE]
  /\ InitGatewayIdle
  /\ InitReactIdle
  /\ InitVueIdle
  /\ fnIn \in
       [fn : {"requestsKey"}, a : KeyBatches, b : KeyBatches]
       \cup [fn : {"getEncryptionMethod"},
             internalType : KnownTypes \cup {"externalEuint512", "euint64", "ExternalEuint8", ""}]
       \cup [fn : {"hasValidSignature"}, lookup : {"null", "undefined", "found", "throws"},
             validity : {"true", "false", "throws"}]
       \cup [fn : {"decrypt"}, instance : BOOLEAN, signer : BOOLEAN, requests : AllBatches,
             now : 0..MaxTime,
             stored : {NoSignature} \cup
                      {Signature(s, d, a, u) : s \in 0..1, d \in Durations,
                                               a \in (SUBSET ContractAddrs) \ {{}},
                                               u \in {"0xU1", "0xU2"}}]
  /\ fnPc = "ready"
  /\ fnOut = NoOutput
  /\ fnLog = <<>>
  /\ sigStore = (IF fnIn.fn = "decrypt" THEN fnIn.stored ELSE NoSignature)

\* the requestsKey memo / computed of the decryption hooks, evaluated for two batches
ApplyRequestsKey ==
  /\ fnIn.fn = "requestsKey" /\ fnPc = "ready"
  /\ fnOut' = [kind |-> "returned", a |-> RequestsKey(fnIn.a), b |-> RequestsKey(fnIn.b)]
  /\ fnPc' = "done"
  /\ UNCHANGED <<fnIn, fnLog, sigStore>>
  /\ UNCHANGED <<configVars, composableVars, emitterVars, clientVars, hookVars, gwVars, reactVars, vueVars>>

ApplyGetEncryptionMethod ==
  /\ fnIn.fn = "getEncryptionMethod" /\ fnPc = "ready"
  /\ fnOut' = [kind |-> "returned", value |-> GetEncryptionMethod(fnIn.internalType)]
  /\ fnPc' = "done"
  /\ UNCHANGED <<fnIn, fnLog, sigStore>>
  /\ UNCHANGED <<configVars, composableVars, emitterVars, clientVars, hookVars, gwVars, reactVars, vueVars>>

\* hasValidSignature from its call to the settlement of its promise
ApplyHasValidSignature ==
  /\ fnIn.fn = "hasValidSignature" /\ fnPc = "ready"
  /\ fnOut' = HasValidSignature(fnIn.lookup, fnIn.validity)
  /\ fnPc' = "done"
  /\ UNCHANGED <<fnIn, fnLog, sigStore>>
  /\ UNCHANGED <<configVars, composableVars, emitterVars, clientVars, hookVars, gwVars, reactVars, vueVars>>

\* decrypt(instance, requests, signer, storage) up to `await loadOrSign(...)`
CoreDecryptCall ==
  /\ fnIn.fn = "decrypt" /\ fnPc = "ready"
  /\ IF ~fnIn.instance \/ ~fnIn.signer \/ Len(fnIn.requests) = 0
       THEN /\ fnOut' = ResolvesTo("{}")
            /\ fnPc' = "done"
            /\ UNCHANGED fnLog
       ELSE /\ fnLog' = <<Call("loadOrSign", ContractAddresses(fnIn.requests))>>
            /\ fnPc' = "loadOrSign"
            /\ UNCHANGED fnOut
  /\ UNCHANGED <<fnIn, sigStore>>
  /\ UNCHANGED <<configVars, composableVars, emitterVars, clientVars, hookVars, gwVars, reactVars, vueVars>>

\* loadOrSign settles; decrypt throws without a signature, else builds the pairs and
\* calls instance.userDecrypt
CoreSignatureSettled(signing, duration) ==
  /\ fnIn.fn = "decrypt" /\ fnPc = "loadOrSign"
  /\ LET r == LoadOrSign(sigStore, fnLog[1].arg, SignerAddress, fnIn.now, signing, duration)
         returned == fnLog \o r.calls \o <<Call("loadOrSign returned", r.result)>>
     IN /\ sigStore' = r.store
        /\ IF r.result = "signature"
             THEN /\ fnLog' = Append(returned, Call("userDecrypt", HandleContractPairs(fnIn.requests)))
                  /\ fnPc' = "userDecrypt"
                  /\ UNCHANGED fnOut
             ELSE /\ fnLog' = returned
                  /\ fnPc' = "done"
                  /\ fnOut' = Rejects
  /\ UNCHANGED fnIn
  /\ UNCHANGED <<configVars, composableVars, emitterVars, clientVars, hookVars, gwVars, reactVars, vueVars>>

\* instance.userDecrypt settles: decrypt resolves with what it returned, or rejects
CoreUserDecryptSettled(ok) ==
  /\ fnIn.fn = "decrypt" /\ fnPc = "userDecrypt"
  /\ fnOut' = (IF ok THEN ResolvesTo("decrypted") ELSE Rejects)
  /\ fnPc' = "done"
  /\ UNCHANGED <<fnIn, fnLog, sigStore>>
  /\ UNCHANGED <<configVars, composableVars, emitterVars, clientVars, hookVars, gwVars, reactVars, vueVars>>

NextCore ==
  \/ ApplyRequestsKey
  \/ ApplyGetEncryptionMethod
  \/ ApplyHasValidSignature
  \/ CoreDecryptCall
  \/ \E signing \in {"signed", "null", "throws"}, d \in Durations : CoreSignatureSettled(signing, d)
  \/ \E ok \in BOOLEAN : CoreUserDecryptSettled(ok)

SpecCore == InitCore /\ [][NextCore]_vars

\* how often x occurs in the sequence s
Occurrences(s, x) == Cardinality({i \in 1..Len(s) : s[i] = x})

\* s and t hold the same requests, each as often, in any order
IsPermutation(s, t) == \A x \in CoreReqs : Occurrences(s, x) = Occurrences(t, x)

\* C25: the batch identity key does not depend on the order of the requests: two batches
\* that are permutations of each other have the same key, batches that hold different
\* (handle, contractAddress) pairs have different keys, and an empty or absent batch has
\* the empty key.
ClaimC25 ==
  (fnIn.fn = "requestsKey" /\ fnPc = "done") =>
     /\ IsPermutation(fnIn.a.items, fnIn.b.items) => fnOut.a = fnOut.b
     /\ Range(fnIn.a.items) # Range(fnIn.b.items) => fnOut.a # fnOut.b
     /\ (~fnIn.a.defined \/ fnIn.a.items = <<>>) => fnOut.a = <<>>

\* C26: getEncryptionMethod returns addBool, add8, add16, add32, add64, add128, add256,
\* addAddress for externalEbool, externalEuint8, ..., externalEaddress, and returns add64
\* (it does not throw) for every other type name.
ClaimC26 ==
  (fnIn.fn = "getEncryptionMethod" /\ fnPc = "done") =>
     /\ fnOut.kind = "returned"
     /\ fnIn.internalType = "externalEbool" => fnOut.value = "addBool"
     /\ fnIn.internalType = "externalEuint8" => fnOut.value = "add8"
     /\ fnIn.internalType = "externalEuint16" => fnOut.value = "add16"
     /\ fnIn.internalType = "externalEuint32" => fnOut.value = "add32"
     /\ fnIn.internalType = "externalEuint64" => fnOut.value = "add64"
     /\ fnIn.internalType = "externalEuint128" => fnOut.value = "add128"
     /\ fnIn.internalType = "externalEuint256" => fnOut.value = "add256"
     /\ fnIn.internalType = "externalEaddress" => fnOut.value = "addAddress"
     /\ fnIn.internalType \notin KnownTypes => fnOut.value = "add64"

\* getEncryptionMethod was applied to externalEuint128
WitnessC26 ==
  /\ fnIn.fn = "getEncryptionMethod" /\ fnPc = "done"
  /\ fnIn.internalType = "externalEuint128"
  /\ fnOut.value = "add128"

\* C27: hasValidSignature never rejects; it resolves to false if the storage lookup or
\* the validity check throws, and resolves to true only if a stored signature was found
\* and its validity check holds.
ClaimC27 ==
  (fnIn.fn = "hasValidSignature" /\ fnPc = "done") =>
     /\ fnOut.kind = "resolved"
     /\ fnOut.value \in BOOLEAN
     /\ fnIn.lookup = "throws" => fnOut.value = FALSE
     /\ (fnIn.lookup = "found" /\ fnIn.validity = "throws") => fnOut.value = FALSE
     /\ fnOut.value = TRUE => (fnIn.lookup = "found" /\ fnIn.validity = "true")

\* hasValidSignature was called, a signature was found and its isValid() threw
WitnessC27 ==
  /\ fnIn.fn = "hasValidSignature" /\ fnPc = "done"
  /\ fnIn.lookup = "found" /\ fnIn.validity = "throws"
  /\ fnOut = ResolvesTo(FALSE)

\* the positions in the log of decrypt's calls of the given name
CallsOf(name) == {i \in 1..Len(fnLog) : fnLog[i].call = name}

ClaimC30 ==
  (fnIn.fn = "decrypt" /\ fnIn.instance /\ fnIn.signer /\ Len(fnIn.requests) > 0) =>
     /\ Cardinality(CallsOf("loadOrSign")) = (IF fnPc = "ready" THEN 0 ELSE 1)
     /\ \A i \in CallsOf("loadOrSign") :
          /\ Range(fnLog[i].arg) = {fnIn.requests[k].contractAddress : k \in 1..Len(fnIn.requests)}
          /\ \A m, n \in 1..Len(fnLog[i].arg) : fnLog[i].arg[m] = fnLog[i].arg[n] => m = n
     /\ Cardinality(CallsOf("userDecrypt")) <= 1
     /\ \A j \in CallsOf("userDecrypt") :
          /\ \E i \in CallsOf("loadOrSign returned") : i < j /\ fnLog[i].arg = "signature"
          /\ \A i \in CallsOf("loadOrSign") : i < j
          /\ fnLog[j].arg = fnIn.requests
     /\ \A i \in CallsOf("loadOrSign returned") :
          fnLog[i].arg # "signature" =>
             /\ fnPc = "done" /\ fnOut.kind = "rejected"
             /\ CallsOf("userDecrypt") = {}
     /\ fnPc = "done" =>
          (fnOut.kind = "resolved" => CallsOf("userDecrypt") # {})

\* decrypt resolved for a batch of two requests, in descending handle order, on one contract
WitnessC30 ==
  /\ fnIn.fn = "decrypt" /\ fnPc = "done" /\ fnOut = ResolvesTo("decrypted")
  /\ Len(fnIn.requests) = 2
  /\ fnIn.requests[1].handle > fnIn.requests[2].handle
  /\ fnIn.requests[1].contractAddress = fnIn.requests[2].contractAddress
  /\ Cardinality(CallsOf("userDecrypt")) = 1

\* ------------------------------------------------------------------------
\* Specification of the EventEmitter with arbitrary listeners
\* ------------------------------------------------------------------------
NextEmitter ==
  \/ \E f \in Listeners : EmitterOn(f)
  \/ \E w \in Wrappers : EmitterOnce(w)
  \/ \E f \in Listeners : EmitterOff(f)
  \/ EmitterRemoveAllListeners
  \/ EmitterEmit
  \/ \E b \in [op : {"return", "throw", "emit", "removeAllListeners"}, f : {Empty}]
                \cup [op : {"on", "off"}, f : Listeners] : ListenerRuns(b)
  \/ ForEachDone

SpecEmitter == Init /\ [][NextEmitter]_vars

\* C18: listener isolation. When a listener throws during an emit(event), that emit
\* still returns to its caller without throwing, and every listener that was registered
\* when emit was called, and that no off() unregistered during the emission, was invoked
\* in that emission.
ClaimC18 ==
  lastEmit.threw =>
    /\ lastEmit.result = "true"
    /\ (lastEmit.snapshot \ lastEmit.removed) \subseteq lastEmit.invoked

\* an emission returned in which a listener threw and another listener was called after it
WitnessC18 ==
  /\ stack = <<>>
  /\ lastEmit.threw
  /\ lastEmit.result = "true"
  /\ lastEmit.afterThrow
  /\ lastEmit.removed = {}

\* C19: emit(event) delivers to a snapshot: the listeners invoked in an emission are
\* exactly those registered when emit was called.
ClaimC19 == lastEmit.result = "true" => lastEmit.invoked = lastEmit.snapshot

\* C20: a listener registered with once(event, l) is called for the first emission after
\* its registration and never again, and after that delivery it is no longer registered.
ClaimC20 ==
  \A w \in Wrappers :
    /\ onceCalls[w] <= 1
    /\ onceCalls[w] >= 1 => w \notin Members(listeners.slots)
    /\ (stack = <<>> /\ lastEmit.result = "true" /\ w \in lastEmit.snapshot) => onceCalls[w] >= 1
====
